---- MODULE Spec2Model ----
(***************************************************************************)
(* Model of snowflake-sentinel: the savings estimation (CFOAgent, under    *)
(* Spec), the parsing of the model's response (ForensicAgent, under        *)
(* ForensicSpec), the selection of the failed tasks (SentryAgent, under    *)
(* SentrySpec) and the pipeline run_investigation (under CrewSpec).        *)
(*                                                                         *)
(* A Python str is a TLA+ string; lower(), the `in` substring test,        *)
(* re.search(r'\d+') and int() are computed character by character with   *)
(* Len, SubSeq and \o, as the interpreter computes them.                   *)
(* The outcome of a call is Return(v) or Raise(e), e the exception class.  *)
(***************************************************************************)
EXTENDS Integers, Sequences, FiniteSets, TLC

VARIABLES sf_conn, credit_price, call

vars == <<sf_conn, credit_price, call>>

(***************************************************************************)
(* Bounds of the model: how many pieces an input text is made of.          *)
(***************************************************************************)
MaxSchedPieces == 3
MaxSqlPieces == 2
MaxLabelPieces == 2
MaxSavingsSchedPieces == 2
MaxSavingsSqlPieces == 1

----------------------------------------------------------------------------
(* Python values *)

None == "None"

Return(v) == [exc |-> "none", val |-> v]

Raise(e) == [exc |-> e]

----------------------------------------------------------------------------
(* str operations *)

UpperCase == <<"A", "B", "C", "D", "E", "F", "G", "H", "I", "J", "K", "L", "M",
               "N", "O", "P", "Q", "R", "S", "T", "U", "V", "W", "X", "Y", "Z">>

LowerCase == <<"a", "b", "c", "d", "e", "f", "g", "h", "i", "j", "k", "l", "m",
               "n", "o", "p", "q", "r", "s", "t", "u", "v", "w", "x", "y", "z">>

DigitChars == <<"0", "1", "2", "3", "4", "5", "6", "7", "8", "9">>

\* s[i], 1-based
CharAt(s, i) == SubSeq(s, i, i)

LowerChar(c) ==
    IF \E i \in 1..26 : UpperCase[i] = c
    THEN LowerCase[CHOOSE i \in 1..26 : UpperCase[i] = c]
    ELSE c

RECURSIVE Lower(_)
\* str.lower()
Lower(s) ==
    IF Len(s) = 0 THEN ""
    ELSE Lower(SubSeq(s, 1, Len(s) - 1)) \o LowerChar(CharAt(s, Len(s)))

\* k in s
Contains(s, k) ==
    \E i \in 0..(Len(s) - Len(k)) : SubSeq(s, i + 1, i + Len(k)) = k

IsDigit(c) == \E d \in 1..10 : DigitChars[d] = c

DigitValue(c) == (CHOOSE d \in 1..10 : DigitChars[d] = c) - 1

\* re.search(r'\d+', s) is not None
HasDigit(s) == \E i \in 1..Len(s) : IsDigit(CharAt(s, i))

\* variant of DigitRun: the rightmost maximal run of digits
DigitRun_rightmost(s) ==
    LET stop  == CHOOSE j \in 1..Len(s) :
                    IsDigit(CharAt(s, j))
                    /\ \A k \in (j + 1)..Len(s) : ~IsDigit(CharAt(s, k))
        start == CHOOSE i \in 1..stop :
                    /\ \A k \in i..stop : IsDigit(CharAt(s, k))
                    /\ (i = 1 \/ ~IsDigit(CharAt(s, i - 1)))
    IN SubSeq(s, start, stop)

\* re.search(r'\d+', s).group(): the leftmost maximal run of digits
DigitRun(s) ==
    LET start == CHOOSE i \in 1..Len(s) :
                    IsDigit(CharAt(s, i))
                    /\ \A j \in 1..(i - 1) : ~IsDigit(CharAt(s, j))
        stop  == CHOOSE j \in start..Len(s) :
                    /\ \A k \in start..j : IsDigit(CharAt(s, k))
                    /\ (j = Len(s) \/ ~IsDigit(CharAt(s, j + 1)))
    IN SubSeq(s, start, stop)

RECURSIVE IntOf(_)
\* int(digits)
IntOf(d) ==
    IF Len(d) = 0 THEN 0
    ELSE 10 * IntOf(SubSeq(d, 1, Len(d) - 1)) + DigitValue(CharAt(d, Len(d)))

RECURSIVE Texts(_, _)
\* the texts made of at most n pieces of P
Texts(P, n) ==
    IF n = 0 THEN {""}
    ELSE LET T == Texts(P, n - 1) IN T \cup {t \o p : t \in T, p \in P}

----------------------------------------------------------------------------
(* CFOAgent._parse_schedule_to_annual_runs *)

MinutesPerYear == 365 * 24 * 60
HoursPerYear == 365 * 24
DaysPerYear == 365

\* variant of AnnualRuns: round(total / n) in place of int(total / n)
AnnualRuns_round(total, schedule_lower) ==
    IF ~HasDigit(schedule_lower) THEN Raise("AttributeError")
    ELSE LET n == IntOf(DigitRun(schedule_lower))
         IN IF n = 0 THEN Raise("ZeroDivisionError")
            ELSE Return((2 * total + n) \div (2 * n))

\* int(re.search(r'\d+', schedule_lower).group()), then int(total / n)
AnnualRuns(total, schedule_lower) ==
    IF ~HasDigit(schedule_lower) THEN Raise("AttributeError")
    ELSE LET n == IntOf(DigitRun(schedule_lower))
         IN IF n = 0 THEN Raise("ZeroDivisionError")
            ELSE Return(total \div n)

\* variant of the converter: a schedule without unit is read as days
parse_schedule_default_days(schedule) ==
    LET schedule_lower == Lower(schedule)
    IN IF Contains(schedule_lower, "minute")
          THEN AnnualRuns(MinutesPerYear, schedule_lower)
       ELSE IF Contains(schedule_lower, "hour")
          THEN AnnualRuns(HoursPerYear, schedule_lower)
       ELSE AnnualRuns(DaysPerYear, schedule_lower)

\* variant of the converter: the hour branch is tested before the minute one
parse_schedule_hour_first(schedule) ==
    LET schedule_lower == Lower(schedule)
    IN IF Contains(schedule_lower, "hour")
          THEN AnnualRuns(HoursPerYear, schedule_lower)
       ELSE IF Contains(schedule_lower, "minute")
          THEN AnnualRuns(MinutesPerYear, schedule_lower)
       ELSE IF Contains(schedule_lower, "day")
          THEN AnnualRuns(DaysPerYear, schedule_lower)
       ELSE Return(365)

parse_schedule_to_annual_runs(schedule) ==
    LET schedule_lower == Lower(schedule)
    IN IF Contains(schedule_lower, "minute")
          THEN AnnualRuns(MinutesPerYear, schedule_lower)
       ELSE IF Contains(schedule_lower, "hour")
          THEN AnnualRuns(HoursPerYear, schedule_lower)
       ELSE IF Contains(schedule_lower, "day")
          THEN AnnualRuns(DaysPerYear, schedule_lower)
       ELSE Return(365)

SchedPieces == {"MINUTE", "HOUR", "DAY", "Minute", "hour", "0", "1", "5", " ", "x"}

Schedules == Texts(SchedPieces, MaxSchedPieces)

----------------------------------------------------------------------------
(* CFOAgent.get_warehouse_credits_per_hour *)

warehouse_credits ==
    << <<"X-Small", 1>>, <<"Small", 2>>, <<"Medium", 4>>, <<"Large", 8>>,
       <<"X-Large", 16>>, <<"2X-Large", 32>>, <<"3X-Large", 64>>,
       <<"4X-Large", 128>> >>

\* variant of the lookup: the label is matched case-insensitively
get_warehouse_credits_ignoring_case(warehouse_size) ==
    LET hit == {i \in 1..Len(warehouse_credits) :
                   Lower(warehouse_credits[i][1]) = Lower(warehouse_size)}
    IN IF warehouse_size # None /\ hit # {}
       THEN warehouse_credits[CHOOSE i \in hit : TRUE][2]
       ELSE 1

\* warehouse_credits.get(warehouse_size, 1)
get_warehouse_credits_per_hour(warehouse_size) ==
    IF \E i \in 1..Len(warehouse_credits) : warehouse_credits[i][1] = warehouse_size
    THEN warehouse_credits[CHOOSE i \in 1..Len(warehouse_credits) :
                               warehouse_credits[i][1] = warehouse_size][2]
    ELSE 1

LabelPieces == {"X-", "2X-", "3X-", "4X-", "Small", "Medium", "Large", "medium"}

\* a label of QUERY_HISTORY.warehouse_size, or None (NULL)
Labels == Texts(LabelPieces, MaxLabelPieces) \cup {None}

----------------------------------------------------------------------------
(* CFOAgent.estimate_runtime_improvement *)

\* variant of the table: one percentage mistyped
improvements_mistyped ==
    << <<"division by zero", 5>>, <<"missing column", 100>>,
       <<"missing table", 1000>>, <<"case statement", 5>>, <<"coalesce", 5>>,
       <<"index", 30>>, <<"partition", 40>> >>

improvements ==
    << <<"division by zero", 5>>, <<"missing column", 100>>,
       <<"missing table", 100>>, <<"case statement", 5>>, <<"coalesce", 5>>,
       <<"index", 30>>, <<"partition", 40>> >>

\* variant of the estimator: the loop does not stop at the first keyword
\* found, the last one found wins
estimate_last_keyword(original_sql, fixed_sql) ==
    LET fixed_lower == Lower(fixed_sql)
        found == {i \in 1..Len(improvements) :
                     Contains(fixed_lower, improvements[i][1])}
    IN IF found = {} THEN 10
       ELSE improvements[CHOOSE i \in found : \A j \in found : i >= j][2]

\* variant of the estimator: the original SQL is scanned too
estimate_scanning_original(original_sql, fixed_sql) ==
    LET fixed_lower == Lower(original_sql \o " " \o fixed_sql)
        found == {i \in 1..Len(improvements) :
                     Contains(fixed_lower, improvements[i][1])}
    IN IF found = {} THEN 10
       ELSE improvements[CHOOSE i \in found : \A j \in found : i <= j][2]

\* for keyword, improvement_pct in improvements.items(): first keyword found
estimate_runtime_improvement(original_sql, fixed_sql) ==
    LET fixed_lower == Lower(fixed_sql)
        found == {i \in 1..Len(improvements) :
                     Contains(fixed_lower, improvements[i][1])}
    IN IF found = {} THEN 10
       ELSE improvements[CHOOSE i \in found : \A j \in found : i <= j][2]

SqlPieces ==
    {"Division By Zero", "missing column", "missing table", "CASE statement",
     "COALESCE", "index", "PARTITION", "select ", "x"}

SqlTexts == Texts(SqlPieces, MaxSqlPieces)

----------------------------------------------------------------------------
(* float arithmetic: a float is the exact rational <<n, d>>, d > 0, in      *)
(* lowest terms                                                            *)

RECURSIVE GCD(_, _)
GCD(a, b) == IF b = 0 THEN a ELSE GCD(b, a % b)

Abs(a) == IF a < 0 THEN -a ELSE a

Rat(n, d) == LET g == GCD(Abs(n), d) IN <<n \div g, d \div g>>

\* a * b
RatMul(a, b) ==
    LET g1 == GCD(Abs(a[1]), b[2])
        g2 == GCD(Abs(b[1]), a[2])
    IN Rat((a[1] \div g1) * (b[1] \div g2), (a[2] \div g2) * (b[2] \div g1))

\* a - b
RatSub(a, b) ==
    LET g == GCD(a[2], b[2])
    IN Rat(a[1] * (b[2] \div g) - b[1] * (a[2] \div g), (a[2] \div g) * b[2])

RECURSIVE Pow10(_)
Pow10(k) == IF k = 0 THEN 1 ELSE 10 * Pow10(k - 1)

\* round(x, ndigits) of a value x >= 0: to the nearest multiple of
\* 10^-ndigits, a tie to the even one
RatRound(x, ndigits) ==
    LET scaled == RatMul(x, <<Pow10(ndigits), 1>>)
        q == scaled[1] \div scaled[2]
        r == scaled[1] % scaled[2]
        up == \/ 2 * r > scaled[2]
              \/ (2 * r = scaled[2] /\ q % 2 = 1)
    IN Rat(IF up THEN q + 1 ELSE q, Pow10(ndigits))

----------------------------------------------------------------------------
(* CFOAgent.calculate_savings *)

\* get_task_execution_stats: the query raised, or it returned None
QueryFailed == [fetchone |-> "raise"]

NoRow == [fetchone |-> "None"]

\* variant of PlaceholderStats: the 10 seconds are written as seconds in the
\* field that holds milliseconds
PlaceholderStats_seconds ==
    [avg_execution_time_ms |-> 10, warehouse_size |-> "X-Small",
     execution_count |-> 1]

\* the stats substituted when get_task_execution_stats returns None
PlaceholderStats ==
    [avg_execution_time_ms |-> 10000, warehouse_size |-> "X-Small",
     execution_count |-> 1]

\* the stats calculate_savings works on; found is the value returned by
\* get_task_execution_stats
StatsOrPlaceholder(found) == IF found = NoRow THEN PlaceholderStats ELSE found

\* variant of savings_locals: the run time is converted to credits with 60
\* in place of 3600
savings_locals_per_minute(found, original_sql, fixed_sql, executions_per_year, price) ==
    LET stats == StatsOrPlaceholder(found)
        avg_time_seconds == Rat(stats.avg_execution_time_ms, 1000)
        credits_per_hour == get_warehouse_credits_per_hour(stats.warehouse_size)
        improvement_pct == estimate_runtime_improvement(original_sql, fixed_sql)
        time_saved_seconds == RatMul(avg_time_seconds, Rat(improvement_pct, 100))
        credits_per_run_before ==
            RatMul(RatMul(avg_time_seconds, <<1, 60>>), <<credits_per_hour, 1>>)
        credits_per_run_after ==
            RatMul(RatMul(RatSub(avg_time_seconds, time_saved_seconds), <<1, 60>>),
                   <<credits_per_hour, 1>>)
        credits_saved_per_run == RatSub(credits_per_run_before, credits_per_run_after)
        annual_credits_saved ==
            RatMul(credits_saved_per_run, <<executions_per_year, 1>>)
    IN [avg_time_seconds |-> avg_time_seconds,
        credits_per_hour |-> credits_per_hour,
        improvement_pct |-> improvement_pct,
        time_saved_seconds |-> time_saved_seconds,
        credits_per_run_before |-> credits_per_run_before,
        credits_per_run_after |-> credits_per_run_after,
        credits_saved_per_run |-> credits_saved_per_run,
        annual_credits_saved |-> annual_credits_saved,
        annual_cost_saved |-> RatMul(annual_credits_saved, price)]

\* variant of savings_locals: credits_per_run_after is computed from the
\* time saved, not from the time left
savings_locals_after_is_saved(found, original_sql, fixed_sql, executions_per_year, price) ==
    LET stats == StatsOrPlaceholder(found)
        avg_time_seconds == Rat(stats.avg_execution_time_ms, 1000)
        credits_per_hour == get_warehouse_credits_per_hour(stats.warehouse_size)
        improvement_pct == estimate_runtime_improvement(original_sql, fixed_sql)
        time_saved_seconds == RatMul(avg_time_seconds, Rat(improvement_pct, 100))
        credits_per_run_before ==
            RatMul(RatMul(avg_time_seconds, <<1, 3600>>), <<credits_per_hour, 1>>)
        credits_per_run_after ==
            RatMul(RatMul(time_saved_seconds, <<1, 3600>>), <<credits_per_hour, 1>>)
        credits_saved_per_run == RatSub(credits_per_run_before, credits_per_run_after)
        annual_credits_saved ==
            RatMul(credits_saved_per_run, <<executions_per_year, 1>>)
    IN [avg_time_seconds |-> avg_time_seconds,
        credits_per_hour |-> credits_per_hour,
        improvement_pct |-> improvement_pct,
        time_saved_seconds |-> time_saved_seconds,
        credits_per_run_before |-> credits_per_run_before,
        credits_per_run_after |-> credits_per_run_after,
        credits_saved_per_run |-> credits_saved_per_run,
        annual_credits_saved |-> annual_credits_saved,
        annual_cost_saved |-> RatMul(annual_credits_saved, price)]

\* variant of savings_locals: the credits saved are after minus before
savings_locals_after_minus_before(found, original_sql, fixed_sql, executions_per_year, price) ==
    LET stats == StatsOrPlaceholder(found)
        avg_time_seconds == Rat(stats.avg_execution_time_ms, 1000)
        credits_per_hour == get_warehouse_credits_per_hour(stats.warehouse_size)
        improvement_pct == estimate_runtime_improvement(original_sql, fixed_sql)
        time_saved_seconds == RatMul(avg_time_seconds, Rat(improvement_pct, 100))
        credits_per_run_before ==
            RatMul(RatMul(avg_time_seconds, <<1, 3600>>), <<credits_per_hour, 1>>)
        credits_per_run_after ==
            RatMul(RatMul(RatSub(avg_time_seconds, time_saved_seconds), <<1, 3600>>),
                   <<credits_per_hour, 1>>)
        credits_saved_per_run == RatSub(credits_per_run_after, credits_per_run_before)
        annual_credits_saved ==
            RatMul(credits_saved_per_run, <<executions_per_year, 1>>)
    IN [avg_time_seconds |-> avg_time_seconds,
        credits_per_hour |-> credits_per_hour,
        improvement_pct |-> improvement_pct,
        time_saved_seconds |-> time_saved_seconds,
        credits_per_run_before |-> credits_per_run_before,
        credits_per_run_after |-> credits_per_run_after,
        credits_saved_per_run |-> credits_saved_per_run,
        annual_credits_saved |-> annual_credits_saved,
        annual_cost_saved |-> RatMul(annual_credits_saved, price)]

\* the local variables of calculate_savings before the report is built
\* (the unrounded values)
savings_locals(found, original_sql, fixed_sql, executions_per_year, price) ==
    LET stats == StatsOrPlaceholder(found)
        avg_time_seconds == Rat(stats.avg_execution_time_ms, 1000)
        credits_per_hour == get_warehouse_credits_per_hour(stats.warehouse_size)
        improvement_pct == estimate_runtime_improvement(original_sql, fixed_sql)
        time_saved_seconds == RatMul(avg_time_seconds, Rat(improvement_pct, 100))
        credits_per_run_before ==
            RatMul(RatMul(avg_time_seconds, <<1, 3600>>), <<credits_per_hour, 1>>)
        credits_per_run_after ==
            RatMul(RatMul(RatSub(avg_time_seconds, time_saved_seconds), <<1, 3600>>),
                   <<credits_per_hour, 1>>)
        credits_saved_per_run == RatSub(credits_per_run_before, credits_per_run_after)
        annual_credits_saved ==
            RatMul(credits_saved_per_run, <<executions_per_year, 1>>)
    IN [avg_time_seconds |-> avg_time_seconds,
        credits_per_hour |-> credits_per_hour,
        improvement_pct |-> improvement_pct,
        time_saved_seconds |-> time_saved_seconds,
        credits_per_run_before |-> credits_per_run_before,
        credits_per_run_after |-> credits_per_run_after,
        credits_saved_per_run |-> credits_saved_per_run,
        annual_credits_saved |-> annual_credits_saved,
        annual_cost_saved |-> RatMul(annual_credits_saved, price)]

\* variant of savings_report: the annual figures are derived from the
\* rounded credits_saved_per_run and the rounded annual credits
savings_report_from_rounded(task_name, warehouse_size, v, executions_per_year, price) ==
    LET credits == RatRound(v.credits_saved_per_run, 6)
        annual == RatRound(RatMul(credits, <<executions_per_year, 1>>), 2)
    IN [task_name |-> task_name,
        warehouse_size |-> warehouse_size,
        avg_execution_time_seconds |-> RatRound(v.avg_time_seconds, 2),
        estimated_improvement_pct |-> v.improvement_pct,
        time_saved_per_run_seconds |-> RatRound(v.time_saved_seconds, 2),
        credits_saved_per_run |-> credits,
        executions_per_year |-> executions_per_year,
        annual_credits_saved |-> annual,
        annual_cost_saved_usd |-> RatRound(RatMul(annual, price), 2)]

\* the dict calculate_savings returns, built from its locals v
savings_report(task_name, warehouse_size, v, executions_per_year, price) ==
    [task_name |-> task_name,
     warehouse_size |-> warehouse_size,
     avg_execution_time_seconds |-> RatRound(v.avg_time_seconds, 2),
     estimated_improvement_pct |-> v.improvement_pct,
     time_saved_per_run_seconds |-> RatRound(v.time_saved_seconds, 2),
     credits_saved_per_run |-> RatRound(v.credits_saved_per_run, 6),
     executions_per_year |-> executions_per_year,
     annual_credits_saved |-> RatRound(v.annual_credits_saved, 2),
     annual_cost_saved_usd |-> RatRound(v.annual_cost_saved, 2)]

\* variant of calculate_savings: the average run time 0 is taken for missing
\* stats
calculate_savings_zero_is_missing(task_name, found, original_sql, fixed_sql, task_schedule, price) ==
    LET used == IF found # NoRow /\ found.avg_execution_time_ms = 0
                THEN NoRow ELSE found
        runs == parse_schedule_to_annual_runs(task_schedule)
    IN IF runs.exc # "none" THEN runs
       ELSE Return(savings_report(task_name, StatsOrPlaceholder(used).warehouse_size,
                       savings_locals(used, original_sql, fixed_sql, runs.val, price),
                       runs.val, price))

\* variant of calculate_savings: a value fetched when the connection is
\* opened is reused by the calls made on the open connection
calculate_savings_warm(task_name, found, original_sql, fixed_sql, task_schedule, price) ==
    LET runs == parse_schedule_to_annual_runs(task_schedule)
        p == IF sf_conn = None THEN price ELSE RatMul(price, <<2, 1>>)
    IN IF runs.exc # "none" THEN runs
       ELSE Return(savings_report(task_name, StatsOrPlaceholder(found).warehouse_size,
                       savings_locals(found, original_sql, fixed_sql, runs.val, p),
                       runs.val, p))

\* the body of calculate_savings after the stats are fetched; found is the
\* value returned by get_task_execution_stats, price is self.credit_price
calculate_savings(task_name, found, original_sql, fixed_sql, task_schedule, price) ==
    LET runs == parse_schedule_to_annual_runs(task_schedule)
    IN IF runs.exc # "none" THEN runs
       ELSE Return(savings_report(task_name, StatsOrPlaceholder(found).warehouse_size,
                       savings_locals(found, original_sql, fixed_sql, runs.val, price),
                       runs.val, price))

AvgTimesMs == {0, 152}

StatsLabels == {"X-Small", "2X-Large"}

\* what the warehouse answers to the query of get_task_execution_stats:
\* a failure, no row (fetchone() is None), or one row
WarehouseAnswers ==
    {QueryFailed, NoRow}
    \cup {[fetchone |-> "row", avg_execution_time_ms |-> ms,
           warehouse_size |-> w, execution_count |-> 1] :
             ms \in AvgTimesMs, w \in StatsLabels}

SavingsSchedPieces == {"5 ", "0", "MINUTE", "Hour"}

SavingsSqlPieces == {"Division By Zero", "missing table"}

OriginalSqls == {"missing table", "select 1"}

TaskNames == {"TASK_BROKEN_DIVISION"}

CreditPrices == {<<3, 1>>, <<0, 1>>}

----------------------------------------------------------------------------
(* The agent and its caller *)

\* the calls a caller makes, with the arguments it passes
PendingCalls ==
    {[fn |-> "_parse_schedule_to_annual_runs", status |-> "pending",
      schedule |-> s] : s \in Schedules}
    \cup
    {[fn |-> "get_warehouse_credits_per_hour", status |-> "pending",
      warehouse_size |-> w] : w \in Labels}
    \cup
    {[fn |-> "estimate_runtime_improvement", status |-> "pending",
      original_sql |-> o, fixed_sql |-> f] : o \in SqlPieces, f \in SqlTexts}
    \cup
    {[fn |-> "calculate_savings", status |-> "pending", task_name |-> t,
      original_sql |-> o, fixed_sql |-> f, task_schedule |-> s] :
        t \in TaskNames, o \in OriginalSqls,
        f \in Texts(SavingsSqlPieces, MaxSavingsSqlPieces),
        s \in Texts(SavingsSchedPieces, MaxSavingsSchedPieces)}

\* CFOAgent.__init__, and the first call of the caller
Init ==
    /\ sf_conn = None
    /\ credit_price \in CreditPrices
    /\ call \in PendingCalls

Pending(fn) == call.status = "pending" /\ call.fn = fn

CallParseSchedule ==
    /\ Pending("_parse_schedule_to_annual_runs")
    /\ call' = [call EXCEPT !.status = "done"] @@
               [ret |-> parse_schedule_to_annual_runs(call.schedule)]
    /\ UNCHANGED <<sf_conn, credit_price>>

CallGetWarehouseCredits ==
    /\ Pending("get_warehouse_credits_per_hour")
    /\ call' = [call EXCEPT !.status = "done"] @@
               [ret |-> Return(get_warehouse_credits_per_hour(call.warehouse_size))]
    /\ UNCHANGED <<sf_conn, credit_price>>

CallEstimateImprovement ==
    /\ Pending("estimate_runtime_improvement")
    /\ call' = [call EXCEPT !.status = "done"] @@
               [ret |-> Return(estimate_runtime_improvement(call.original_sql,
                                                            call.fixed_sql))]
    /\ UNCHANGED <<sf_conn, credit_price>>

\* the frame of a call that raised has no locals left
NoLocals == [raised |-> TRUE]

\* the call before this one got another answer from the warehouse, or there
\* was none
NoPrev == [stats |-> "other"]

\* calculate_savings: get_task_execution_stats connects when there is no
\* connection yet (connect_snowflake may raise), runs the query on the
\* connection (a closed connection raises) and the report is computed from
\* the answer
CallCalculateSavings ==
    /\ Pending("calculate_savings")
    /\ \E connected \in BOOLEAN, answer \in WarehouseAnswers :
          LET conn == IF sf_conn = None
                      THEN (IF connected THEN "open" ELSE None)
                      ELSE sf_conn
              found == IF conn = "open" THEN answer ELSE QueryFailed
              ret == IF found = QueryFailed
                     THEN Raise("snowflake.connector.Error")
                     ELSE calculate_savings(call.task_name, found,
                                            call.original_sql, call.fixed_sql,
                                            call.task_schedule, credit_price)
          IN /\ sf_conn' = conn
             /\ call' = [k \in DOMAIN call \ {"prev"} |->
                            IF k = "status" THEN "done" ELSE call[k]] @@
                  [stats |-> found,
                   ret |-> ret,
                   locals |-> IF ret.exc = "none"
                              THEN savings_locals(found, call.original_sql,
                                       call.fixed_sql, ret.val.executions_per_year,
                                       credit_price)
                              ELSE NoLocals,
                   same_as |-> IF "prev" \in DOMAIN call /\ call.prev.stats = found
                               THEN call.prev ELSE NoPrev]
    /\ UNCHANGED credit_price

\* the caller repeats its call with the same arguments; prev remembers what
\* the warehouse answered to the call before and what that call returned
CallAgain ==
    /\ call.status = "done"
    /\ call' = [k \in DOMAIN call \ {"ret", "stats", "locals", "same_as"} |->
                   IF k = "status" THEN "pending" ELSE call[k]] @@
               (IF call.fn = "calculate_savings"
                THEN [prev |-> [stats |-> call.stats, ret |-> call.ret]]
                ELSE <<>>)
    /\ UNCHANGED <<sf_conn, credit_price>>

\* CFOAgent.close
Close ==
    /\ call.status = "done"
    /\ sf_conn # None
    /\ sf_conn' = "closed"
    /\ UNCHANGED <<credit_price, call>>

Next ==
    \/ CallParseSchedule
    \/ CallGetWarehouseCredits
    \/ CallEstimateImprovement
    \/ CallCalculateSavings
    \/ CallAgain
    \/ Close

Spec == Init /\ [][Next]_vars

----------------------------------------------------------------------------
(* ForensicAgent: the parsing of the model's response                      *)
(* (src/agents/forensic_agent.py)                                          *)

MaxStepPieces == 5
MaxFencePieces == 3

UpperChar(c) ==
    IF \E i \in 1..26 : LowerCase[i] = c
    THEN UpperCase[CHOOSE i \in 1..26 : LowerCase[i] = c]
    ELSE c

RECURSIVE Upper(_)
\* str.upper()
Upper(s) ==
    IF Len(s) = 0 THEN ""
    ELSE Upper(SubSeq(s, 1, Len(s) - 1)) \o UpperChar(CharAt(s, Len(s)))

\* s.find(k): the lowest 0-based index at which k occurs in s, -1 if none
Find(s, k) ==
    IF Contains(s, k)
    THEN CHOOSE i \in 0..(Len(s) - Len(k)) :
            /\ SubSeq(s, i + 1, i + Len(k)) = k
            /\ \A j \in 0..(i - 1) : SubSeq(s, j + 1, j + Len(k)) # k
    ELSE -1

\* s[start:end] for 0 <= start and 0 <= end <= len(s)
Slice(s, start, end) == IF end <= start THEN "" ELSE SubSeq(s, start + 1, end)

\* the characters str.strip() removes
Whitespace == {" ", "\n", "\t", "\r"}

RECURSIVE Strip(_)
\* str.strip()
Strip(s) ==
    IF Len(s) = 0 THEN ""
    ELSE IF CharAt(s, 1) \in Whitespace THEN Strip(SubSeq(s, 2, Len(s)))
    ELSE IF CharAt(s, Len(s)) \in Whitespace THEN Strip(SubSeq(s, 1, Len(s) - 1))
    ELSE s

RECURSIVE Split(_, _)
\* s.split(sep): the pieces between the occurrences of sep, found from left
\* to right without overlap
Split(s, sep) ==
    IF ~Contains(s, sep) THEN <<s>>
    ELSE LET i == Find(s, sep)
         IN <<Slice(s, 0, i)>> \o Split(Slice(s, i + Len(sep), Len(s)), sep)

RECURSIVE Join(_, _)
\* sep.join(parts)
Join(parts, sep) ==
    IF Len(parts) = 0 THEN ""
    ELSE IF Len(parts) = 1 THEN parts[1]
    ELSE parts[1] \o sep \o Join(Tail(parts), sep)

\* the backquote cannot be written in a TLA+ string: the model writes the
\* character as an apostrophe, which no other text of the model contains
BackQuote == "'"

\* the marker that closes a code block, and the one that opens an SQL block
CodeFence == BackQuote \o BackQuote \o BackQuote
SqlFence == CodeFence \o "sql"

\* step_markers of _parse_reasoning_steps
step_markers ==
    << <<"STEP 1", "step1_analyze_error">>, <<"STEP 2", "step2_context_check">>,
       <<"STEP 3", "step3_root_cause">>, <<"STEP 4", "step4_propose_fix">>,
       <<"STEP 5", "step5_validation">> >>

\* variant of step_text: the section starts after its marker
step_text_after_marker(response_text, i) ==
    LET marker == step_markers[i][1]
    IN IF Contains(response_text, marker)
       THEN LET start == Find(response_text, marker) + Len(marker)
                end == IF i + 1 <= Len(step_markers)
                       THEN (IF Contains(response_text, step_markers[i + 1][1])
                             THEN Find(response_text, step_markers[i + 1][1])
                             ELSE Len(response_text))
                       ELSE Len(response_text)
            IN Strip(Slice(response_text, start, end))
       ELSE ""

\* variant of step_text: the section ends at the nearest marker of a later
\* step that follows in the text
step_text_next_present(response_text, i) ==
    LET marker == step_markers[i][1]
    IN IF Contains(response_text, marker)
       THEN LET start == Find(response_text, marker)
                ends == {Find(response_text, step_markers[j][1]) :
                            j \in (i + 1)..Len(step_markers)}
                        \cup {Len(response_text)}
                after == {e \in ends : e >= start}
                end == CHOOSE e \in after : \A f \in after : e <= f
            IN Strip(Slice(response_text, start, end))
       ELSE ""

\* the value the loop stores under the key of step_markers[i], or leaves at ''
step_text(response_text, i) ==
    LET marker == step_markers[i][1]
    IN IF Contains(response_text, marker)
       THEN LET start == Find(response_text, marker)
                end == IF i + 1 <= Len(step_markers)
                       THEN (IF Contains(response_text, step_markers[i + 1][1])
                             THEN Find(response_text, step_markers[i + 1][1])
                             ELSE Len(response_text))
                       ELSE Len(response_text)
            IN Strip(Slice(response_text, start, end))
       ELSE ""

\* variant of _parse_reasoning_steps: steps starts empty and gets a key for
\* each marker found
parse_reasoning_steps_found_only(response_text) ==
    LET present == {i \in 1..Len(step_markers) :
                       Contains(response_text, step_markers[i][1])}
    IN Return([k \in {step_markers[i][2] : i \in present} |->
                  step_text(response_text,
                            CHOOSE i \in present : step_markers[i][2] = k)])

\* ForensicAgent._parse_reasoning_steps
parse_reasoning_steps(response_text) ==
    Return([k \in {step_markers[i][2] : i \in 1..Len(step_markers)} |->
               step_text(response_text,
                         CHOOSE i \in 1..Len(step_markers) : step_markers[i][2] = k)])

\* the lines of the STEP 4 section from the first one with SELECT to the
\* first one of them with ';'
sql_lines(lines) ==
    LET first == CHOOSE i \in 1..Len(lines) :
                    /\ Contains(Upper(lines[i]), "SELECT")
                    /\ \A j \in 1..(i - 1) : ~Contains(Upper(lines[j]), "SELECT")
        closing == {i \in first..Len(lines) : Contains(lines[i], ";")}
        last == IF closing = {} THEN Len(lines)
                ELSE CHOOSE i \in closing : \A j \in closing : i <= j
    IN SubSeq(lines, first, last)

\* ForensicAgent._extract_fixed_sql
extract_fixed_sql(response_text) ==
    IF Contains(response_text, SqlFence)
    THEN Return(Strip(Split(Split(response_text, SqlFence)[2], CodeFence)[1]))
    ELSE IF Contains(response_text, "STEP 4")
            /\ Contains(Upper(Split(response_text, "STEP 4")[2]), "SELECT")
         THEN Return(Strip(Join(sql_lines(Split(Split(response_text, "STEP 4")[2],
                                                "\n")), "\n")))
         ELSE Return(None)

\* pieces of a response: the step markers and text around them
StepPieces == {"STEP 1", "STEP 2", "STEP 3", "STEP 4", "STEP 5", " fix\n"}

\* pieces of a response: fences, backticks, a marker, SQL and other text
FencePieces == {SqlFence, CodeFence, BackQuote, "STEP 4", "\nSelect 1", ";", "\n", " a"}

\* None where the other values are records or lists
Nothing == <<>>

\* the failed queries of QUERY_HISTORY: with a table after FROM, without
\* FROM, and with nothing after FROM
FailedQueries == {"select total / 0 from orders", "select 1 / 0", "select total from "}

\* what the warehouse answers to the query of get_query_text: a failure, no
\* row, or the row of the query
QueryTextAnswers ==
    {QueryFailed, NoRow}
    \cup {[fetchone |-> "row", query_text |-> q, execution_time |-> 152] :
             q \in FailedQueries}

\* what the warehouse answers to the statements of get_table_ddl
DdlAnswers ==
    {QueryFailed, NoRow,
     [fetchone |-> "row", ddl |-> "create table orders (total int)"]}

\* what the language model answers: an error of the API or a response
ApiError == [raised |-> "anthropic.APIError"]
Responses == {"STEP 1 the divisor is 0",
              "STEP 4 " \o SqlFence \o "\nselect 1\n" \o CodeFence}
ClaudeAnswers == {ApiError} \cup {[text |-> t] : t \in Responses}

\* ForensicAgent.get_query_text with the connection conn (None when
\* connect_snowflake raised): the row, NoRow for None; nothing is caught
get_query_text(conn, answer) ==
    IF conn = None \/ answer = QueryFailed
    THEN Raise("snowflake.connector.Error")
    ELSE Return(answer)

\* ForensicAgent.get_table_ddl: None when a statement raises or no row comes
get_table_ddl(answer) ==
    IF answer = QueryFailed \/ answer = NoRow THEN None ELSE answer.ddl

\* investigate looks the table up when the text has FROM and a word after
\* it; split()[0] raises IndexError without one, which is passed over
names_table(query_text) ==
    /\ Contains(Upper(query_text), "FROM")
    /\ Strip(Split(Upper(query_text), "FROM")[2]) # ""

\* variant of investigate_with_claude: an error of the API is not caught
investigate_with_claude_unguarded(failure_context, answer) ==
    IF answer = ApiError THEN Raise(answer.raised)
    ELSE Return([full_analysis |-> answer.text,
                 reasoning_steps |-> parse_reasoning_steps(answer.text).val,
                 fixed_sql |-> extract_fixed_sql(answer.text).val])

\* ForensicAgent.investigate_with_claude: None when the call raised
investigate_with_claude(failure_context, answer) ==
    IF answer = ApiError THEN Return(Nothing)
    ELSE Return([full_analysis |-> answer.text,
                 reasoning_steps |-> parse_reasoning_steps(answer.text).val,
                 fixed_sql |-> extract_fixed_sql(answer.text).val])

\* what ForensicAgent.investigate returns when the query text is not found
InvestigationError == [error |-> "Could not fetch query details"]

\* ForensicAgent.investigate: its outcome and the failure contexts sent to
\* the language model
investigate(task_name, error_message, conn, answer, ddl_answer, claude_answer) ==
    LET query_details == get_query_text(conn, answer)
    IN IF query_details.exc # "none"
       THEN [ret |-> query_details, claude_calls |-> <<>>]
       ELSE IF query_details.val = NoRow
       THEN [ret |-> Return(InvestigationError), claude_calls |-> <<>>]
       ELSE LET query_text == query_details.val.query_text
                table_ddl == IF names_table(query_text)
                             THEN get_table_ddl(ddl_answer) ELSE None
                failure_context == [query_text |-> query_text,
                                    error_message |-> error_message,
                                    table_ddl |-> table_ddl]
                diagnosis == investigate_with_claude(failure_context, claude_answer)
            IN [ret |->
                   IF diagnosis.exc # "none" THEN diagnosis
                   ELSE Return(
                      [task_name |-> task_name,
                       query_text |-> query_text,
                       error_message |-> error_message,
                       diagnosis |-> IF diagnosis.val # Nothing
                                     THEN diagnosis.val.full_analysis ELSE None,
                       reasoning_steps |-> IF diagnosis.val # Nothing
                                           THEN diagnosis.val.reasoning_steps
                                           ELSE <<>>,
                       fixed_sql |-> IF diagnosis.val # Nothing
                                     THEN diagnosis.val.fixed_sql ELSE None,
                       execution_time_ms |-> query_details.val.execution_time]),
                claude_calls |-> <<failure_context>>]

ForensicCalls ==
    {[fn |-> "_parse_reasoning_steps", status |-> "pending",
      response_text |-> t] : t \in Texts(StepPieces, MaxStepPieces)}
    \cup
    {[fn |-> "_extract_fixed_sql", status |-> "pending",
      response_text |-> t] : t \in Texts(FencePieces, MaxFencePieces)}
    \cup
    {[fn |-> "ForensicAgent.investigate", status |-> "pending",
      task_name |-> t, error_message |-> e] :
        t \in {"TASK_A", "TASK_B"}, e \in {"Division by zero", None}}

\* the agent of the crew and a response of the model to parse
ForensicInit ==
    /\ sf_conn = None
    /\ credit_price = <<3, 1>>
    /\ call \in ForensicCalls

CallParseReasoningSteps ==
    /\ Pending("_parse_reasoning_steps")
    /\ call' = [call EXCEPT !.status = "done"] @@
               [ret |-> parse_reasoning_steps(call.response_text)]
    /\ UNCHANGED <<sf_conn, credit_price>>

CallExtractFixedSql ==
    /\ Pending("_extract_fixed_sql")
    /\ call' = [call EXCEPT !.status = "done"] @@
               [ret |-> extract_fixed_sql(call.response_text)]
    /\ UNCHANGED <<sf_conn, credit_price>>

\* a call of investigate: the connection is made when there is none, and
\* the frame keeps what the warehouse and the language model answered
CallInvestigate ==
    /\ Pending("ForensicAgent.investigate")
    /\ \E connected \in BOOLEAN, answer \in QueryTextAnswers,
          ddl_answer \in DdlAnswers, claude_answer \in ClaudeAnswers :
          LET conn == IF sf_conn = None
                      THEN (IF connected THEN "open" ELSE None)
                      ELSE sf_conn
              out == investigate(call.task_name, call.error_message, conn,
                                 answer, ddl_answer, claude_answer)
          IN /\ sf_conn' = conn
             /\ call' = [call EXCEPT !.status = "done"] @@
                        [ret |-> out.ret, claude_calls |-> out.claude_calls,
                         answer |-> answer, ddl_answer |-> ddl_answer,
                         claude_answer |-> claude_answer]
    /\ UNCHANGED credit_price

ForensicNext ==
    \/ CallParseReasoningSteps
    \/ CallExtractFixedSql
    \/ CallInvestigate

ForensicSpec == ForensicInit /\ [][ForensicNext]_vars

----------------------------------------------------------------------------
(* SentryAgent: the failed tasks (src/agents/sentry_agent.py)              *)

MaxFailures == 3

\* the names of the failed tasks, in the order in which pandas sorts them
FailedTaskNames == <<"TASK_A", "TASK_B">>

\* the values of the columns that TASK_HISTORY may leave NULL
QueryIds == {"01b2-q", None}
ErrorMessages == {"Division by zero", None}

\* the n-th scheduled time of the scanned hours, as the timestamp the cursor
\* returns
ScheduledTime(n) == "2024-01-15 10:0" \o DigitChars[n + 1]

\* the rows of failed executions at the scheduled times n, n-1, .. 1: the
\* query of detect_failures orders them by scheduled_time, latest first
RECURSIVE FailureRows(_)
FailureRows(n) ==
    IF n = 0 THEN {<<>>}
    ELSE {<<[TASK_NAME |-> t, ERROR_MESSAGE |-> e, SCHEDULED_TIME |-> ScheduledTime(n),
             QUERY_ID |-> q, DATABASE_NAME |-> "SENTINEL_DB",
             SCHEMA_NAME |-> "PUBLIC"]>> \o rest :
            t \in {FailedTaskNames[i] : i \in 1..Len(FailedTaskNames)},
            e \in ErrorMessages, q \in QueryIds, rest \in FailureRows(n - 1)}

\* the columns other than the grouping key
ValueColumns ==
    {"ERROR_MESSAGE", "SCHEDULED_TIME", "QUERY_ID", "DATABASE_NAME", "SCHEMA_NAME"}

\* the rows of the group of task t, in the order of the frame
GroupOf(all_failures, t) ==
    LET IsOfTask(row) == row.TASK_NAME = t IN SelectSeq(all_failures, IsOfTask)

\* GroupBy.first() for one column of one group: the first entry of the column
\* that is not NA, NA when there is none
GroupFirst(group, column) ==
    LET present == {i \in 1..Len(group) : group[i][column] # None}
    IN IF present = {} THEN None
       ELSE group[CHOOSE i \in present : \A j \in present : i <= j][column]

\* all_failures.groupby('TASK_NAME').first().reset_index(): one row per
\* group, the groups sorted by their key
groupby_first(all_failures) ==
    LET IsFailed(t) == Len(GroupOf(all_failures, t)) > 0
        names == SelectSeq(FailedTaskNames, IsFailed)
    IN [i \in 1..Len(names) |->
           [c \in ValueColumns \cup {"TASK_NAME"} |->
               IF c = "TASK_NAME" THEN names[i]
               ELSE GroupFirst(GroupOf(all_failures, names[i]), c)]]

\* SentryAgent.get_latest_failure_per_task, all_failures the frame that
\* detect_failures returns
get_latest_failure_per_task(all_failures) ==
    IF Len(all_failures) = 0 THEN all_failures
    ELSE groupby_first(all_failures)

SentryCalls ==
    {[fn |-> "get_latest_failure_per_task", status |-> "pending",
      all_failures |-> f] : f \in UNION {FailureRows(n) : n \in 0..MaxFailures}}

\* a scan of the task history
SentryInit ==
    /\ sf_conn = None
    /\ credit_price = <<3, 1>>
    /\ call \in SentryCalls

CallGetLatestFailurePerTask ==
    /\ Pending("get_latest_failure_per_task")
    /\ call' = [call EXCEPT !.status = "done"] @@
               [ret |-> Return(get_latest_failure_per_task(call.all_failures))]
    /\ UNCHANGED <<sf_conn, credit_price>>

SentryNext == CallGetLatestFailurePerTask

SentrySpec == SentryInit /\ [][SentryNext]_vars

----------------------------------------------------------------------------
(* SnowflakeSentinelCrew.run_investigation (src/sentinel_crew.py)          *)
(* The frame of the running call holds its position pc, its locals and,    *)
(* in trace and sent, the steps performed and the mails delivered so far.  *)

MaxCrewFailures == 2

\* bool(s) of a str or None
Truthy(s) == s # None /\ s # ""

\* variant of _extract_fixed_sql: the text after the marker is not cut at
\* EXPLANATION:
crew_extract_whole_tail(diagnosis_text) ==
    IF ~Truthy(diagnosis_text) THEN None
    ELSE IF Contains(diagnosis_text, "FIXED SQL:")
         THEN Strip(Split(diagnosis_text, "FIXED SQL:")[2])
         ELSE None

\* SnowflakeSentinelCrew._extract_fixed_sql
crew_extract_fixed_sql(diagnosis_text) ==
    IF ~Truthy(diagnosis_text) THEN None
    ELSE IF Contains(diagnosis_text, "FIXED SQL:")
         THEN LET parts == Split(diagnosis_text, "FIXED SQL:")
                  sql_part == IF Contains(parts[2], "EXPLANATION:")
                              THEN Split(parts[2], "EXPLANATION:")[1]
                              ELSE parts[2]
              IN Strip(sql_part)
         ELSE None

\* responses of the language model
DiagnosisTexts ==
    {"", "STEP 1 the divisor is 0", "FIXED SQL: EXPLANATION: none",
     "FIXED SQL:\nselect 1 -- no division by zero\nEXPLANATION: guarded",
     "STEP 4 " \o SqlFence \o "\nselect 1\n" \o CodeFence}

\* the text of the failed query in QUERY_HISTORY
FailedQueryText == "select total / 0 from orders"

\* what ForensicAgent.investigate returns otherwise; diagnosis is the
\* response of the model, None when the call of the model failed
Investigation(row, diagnosis) ==
    [task_name |-> row.TASK_NAME,
     query_text |-> FailedQueryText,
     error_message |-> row.ERROR_MESSAGE,
     diagnosis |-> diagnosis,
     reasoning_steps |-> IF diagnosis = None THEN <<>>
                         ELSE parse_reasoning_steps(diagnosis).val,
     fixed_sql |-> IF diagnosis = None THEN None
                   ELSE extract_fixed_sql(diagnosis).val,
     execution_time_ms |-> 152]

\* what investigate may return for the row: without a query id no query text
\* is found
Investigations(row) ==
    {InvestigationError}
    \cup (IF row.QUERY_ID = None THEN {}
          ELSE {Investigation(row, d) : d \in DiagnosisTexts \cup {None}})

\* what the warehouse answers to the stats query of the savings step
CrewAnswers ==
    {a \in WarehouseAnswers :
        a = NoRow \/ (a # QueryFailed /\ a.avg_execution_time_ms = 152
                                      /\ a.warehouse_size = "X-Small")}

\* a local that is not assigned yet
Unbound == [unbound |-> TRUE]

\* where the SMTP exchange of send_fix_proposal_email may raise
SmtpFailures == {"none", "login", "send_message"}

\* variant of send_fix_proposal_email: the SMTP exchange is not guarded
send_fix_proposal_email_unguarded(failure) ==
    IF failure = "none" THEN Return(TRUE) ELSE Raise("smtplib.SMTPException")

\* NotificationAgent.send_fix_proposal_email: True after send_message, False
\* when the exchange raised
send_fix_proposal_email(failure) ==
    IF failure = "none" THEN Return(TRUE) ELSE Return(FALSE)

\* the texts _extract_fixed_sql of the crew is called with
MaxFixPieces == 3
FixPieces == {"FIXED SQL:", "EXPLANATION:", " select 1\n", "fix"}

CrewCalls ==
    {[fn |-> "SnowflakeSentinelCrew._extract_fixed_sql", status |-> "pending",
      diagnosis_text |-> t] : t \in Texts(FixPieces, MaxFixPieces) \cup {None}}

Step(name, task) == [step |-> name, task |-> task]

\* the statements the agents send to the warehouse with cursor.execute
TaskHistoryQuery == "SELECT name as task_name, state FROM TASK_HISTORY"
QueryTextQuery == "SELECT query_text FROM QUERY_HISTORY"
UseDatabase == "USE DATABASE"
UseSchema == "USE SCHEMA"
DdlQuery == "SELECT GET_DDL('TABLE')"
StatsQuery == "SELECT AVG(qh.execution_time) FROM TASK_HISTORY th"

\* the statements of ForensicAgent.investigate: the query text, and for a
\* query with FROM the statements of get_table_ddl as far as it gets
investigate_statements(investigation) ==
    IF "diagnosis" \in DOMAIN investigation
    THEN <<QueryTextQuery, UseDatabase, UseSchema, DdlQuery>>
    ELSE <<QueryTextQuery>>

\* the frame of a call of run_investigation; executed keeps the statements
\* sent to the warehouse
run_investigation_frame ==
    [fn |-> "run_investigation", status |-> "running",
     pc |-> "detect", failures |-> <<>>, i |-> 0,
     investigation |-> Unbound, fixed_sql |-> Unbound,
     savings_call |-> Unbound, results |-> <<>>,
     trace |-> <<>>, mails |-> <<>>, sent |-> <<>>, executed |-> <<>>]

\* SnowflakeSentinelCrew.__init__ and the call of run_investigation
CrewInit ==
    /\ sf_conn = None
    /\ credit_price = <<3, 1>>
    /\ call \in {run_investigation_frame} \cup CrewCalls

\* a call of _extract_fixed_sql on its own
CallCrewExtractFixedSql ==
    /\ Pending("SnowflakeSentinelCrew._extract_fixed_sql")
    /\ call' = [call EXCEPT !.status = "done"] @@
               [ret |-> Return(crew_extract_fixed_sql(call.diagnosis_text))]
    /\ UNCHANGED <<sf_conn, credit_price>>

Running(pc) ==
    call.fn = "run_investigation" /\ call.status = "running" /\ call.pc = pc

\* the call ends with the exception e
Aborted(frame, e) == [frame EXCEPT !.status = "raised"] @@ [ret |-> Raise(e)]

\* the call returns v
Returned(frame, v) == [frame EXCEPT !.status = "returned"] @@ [ret |-> Return(v)]

\* Phase 1: get_latest_failure_per_task, which raises when the warehouse
\* cannot be reached; no failures: return []
Detect ==
    /\ Running("detect")
    /\ \E reachable \in BOOLEAN,
          all_failures \in UNION {FailureRows(n) : n \in 0..MaxCrewFailures} :
          LET ran == [call EXCEPT
                         !.trace = Append(@, Step("detect", None)),
                         !.executed = IF reachable
                                      THEN Append(@, TaskHistoryQuery) ELSE @]
              failures == get_latest_failure_per_task(all_failures)
          IN call' = IF ~reachable
                     THEN Aborted(ran, "snowflake.connector.Error")
                     ELSE IF Len(failures) = 0 THEN Returned(ran, <<>>)
                     ELSE [ran EXCEPT !.failures = failures, !.i = 1,
                                      !.pc = "investigate"]
    /\ UNCHANGED <<sf_conn, credit_price>>

\* variant of Investigate: a task whose investigation failed is skipped
Investigate_skip ==
    /\ Running("investigate")
    /\ LET row == call.failures[call.i]
           ran == [call EXCEPT !.trace = Append(@, Step("investigate", row.TASK_NAME))]
       IN \E reachable \in BOOLEAN, investigation \in Investigations(row) :
             call' = IF ~reachable
                     THEN Aborted(ran, "snowflake.connector.Error")
                     ELSE IF "diagnosis" \notin DOMAIN investigation
                     THEN (IF call.i < Len(call.failures)
                           THEN [ran EXCEPT !.investigation = investigation,
                                            !.executed = @ \o
                                               investigate_statements(investigation),
                                            !.i = @ + 1]
                           ELSE [ran EXCEPT !.investigation = investigation,
                                            !.executed = @ \o
                                               investigate_statements(investigation),
                                            !.pc = "return"])
                     ELSE [ran EXCEPT !.investigation = investigation,
                                      !.executed = @ \o
                                         investigate_statements(investigation),
                                      !.pc = "savings"]
    /\ UNCHANGED <<sf_conn, credit_price>>

\* Phase 2: forensic.investigate, which raises when the warehouse cannot be
\* reached, and print(investigation['diagnosis'])
Investigate ==
    /\ Running("investigate")
    /\ LET row == call.failures[call.i]
           ran == [call EXCEPT !.trace = Append(@, Step("investigate", row.TASK_NAME))]
       IN \E reachable \in BOOLEAN, investigation \in Investigations(row) :
             call' = IF ~reachable
                     THEN Aborted(ran, "snowflake.connector.Error")
                     ELSE IF "diagnosis" \notin DOMAIN investigation
                     THEN Aborted([ran EXCEPT !.investigation = investigation,
                                               !.executed = @ \o
                                                  investigate_statements(investigation)],
                                  "KeyError")
                     ELSE [ran EXCEPT !.investigation = investigation,
                                      !.executed = @ \o
                                         investigate_statements(investigation),
                                      !.pc = "savings"]
    /\ UNCHANGED <<sf_conn, credit_price>>

\* variant of Savings: the savings are computed for an hourly schedule
Savings_hourly ==
    /\ Running("savings")
    /\ \E connected \in BOOLEAN, answer \in CrewAnswers \cup {QueryFailed} :
          LET row == call.failures[call.i]
              investigation == call.investigation
              fixed_sql == crew_extract_fixed_sql(investigation.diagnosis)
              conn == IF sf_conn = None
                      THEN (IF connected THEN "open" ELSE None)
                      ELSE sf_conn
              found == IF conn = "open" THEN answer ELSE QueryFailed
              args == [task_name |-> row.TASK_NAME,
                       original_sql |-> investigation.query_text,
                       fixed_sql |-> IF Truthy(fixed_sql) THEN fixed_sql
                                     ELSE investigation.query_text,
                       task_schedule |-> "60 MINUTE"]
              savings == IF found = QueryFailed
                         THEN Raise("snowflake.connector.Error")
                         ELSE calculate_savings(args.task_name, found,
                                  args.original_sql, args.fixed_sql,
                                  args.task_schedule, credit_price)
              ran == [call EXCEPT
                         !.trace = Append(@, Step("savings", row.TASK_NAME)),
                         !.executed = IF conn = "open"
                                      THEN Append(@, StatsQuery) ELSE @,
                         !.fixed_sql = fixed_sql,
                         !.savings_call = args @@ [stats |-> found]]
          IN /\ sf_conn' = conn
             /\ call' = IF savings.exc # "none" THEN Aborted(ran, savings.exc)
                        ELSE [ran EXCEPT
                                 !.results = Append(@,
                                     [task_name |-> row.TASK_NAME,
                                      error_message |-> row.ERROR_MESSAGE,
                                      investigation |-> investigation,
                                      savings |-> savings.val]),
                                 !.pc = "notify"]
    /\ UNCHANGED credit_price

\* Phase 3: _extract_fixed_sql, cfo.calculate_savings and results.append;
\* savings_call keeps the arguments of the call and the stats it found
Savings ==
    /\ Running("savings")
    /\ \E connected \in BOOLEAN, answer \in CrewAnswers \cup {QueryFailed} :
          LET row == call.failures[call.i]
              investigation == call.investigation
              fixed_sql == crew_extract_fixed_sql(investigation.diagnosis)
              conn == IF sf_conn = None
                      THEN (IF connected THEN "open" ELSE None)
                      ELSE sf_conn
              found == IF conn = "open" THEN answer ELSE QueryFailed
              args == [task_name |-> row.TASK_NAME,
                       original_sql |-> investigation.query_text,
                       fixed_sql |-> IF Truthy(fixed_sql) THEN fixed_sql
                                     ELSE investigation.query_text,
                       task_schedule |-> "5 MINUTE"]
              savings == IF found = QueryFailed
                         THEN Raise("snowflake.connector.Error")
                         ELSE calculate_savings(args.task_name, found,
                                  args.original_sql, args.fixed_sql,
                                  args.task_schedule, credit_price)
              ran == [call EXCEPT
                         !.trace = Append(@, Step("savings", row.TASK_NAME)),
                         !.executed = IF conn = "open"
                                      THEN Append(@, StatsQuery) ELSE @,
                         !.fixed_sql = fixed_sql,
                         !.savings_call = args @@ [stats |-> found]]
          IN /\ sf_conn' = conn
             /\ call' = IF savings.exc # "none" THEN Aborted(ran, savings.exc)
                        ELSE [ran EXCEPT
                                 !.results = Append(@,
                                     [task_name |-> row.TASK_NAME,
                                      error_message |-> row.ERROR_MESSAGE,
                                      investigation |-> investigation,
                                      savings |-> savings.val]),
                                 !.pc = "notify"]
    /\ UNCHANGED credit_price

\* variant of Notify: a mail that was not delivered is sent a second time
Notify_retry ==
    /\ Running("notify")
    /\ \E failure \in SmtpFailures :
          LET row == call.failures[call.i]
              incident_details ==
                 [task_name |-> row.TASK_NAME,
                  error_message |-> row.ERROR_MESSAGE,
                  original_sql |-> call.investigation.query_text,
                  fixed_sql |-> IF Truthy(call.fixed_sql) THEN call.fixed_sql
                                ELSE "No automated fix available",
                  savings |-> call.results[Len(call.results)].savings]
              notification_sent == send_fix_proposal_email(failure)
              tried == [call EXCEPT
                          !.trace = Append(@, Step("notify", row.TASK_NAME)),
                          !.mails = Append(@, incident_details @@
                                                 [failure |-> failure])]
          IN call' = IF notification_sent.exc # "none"
                     THEN Aborted(tried, notification_sent.exc)
                     ELSE LET ran == [tried EXCEPT
                                        !.sent = IF notification_sent.val
                                                 THEN Append(@, row.TASK_NAME)
                                                 ELSE @]
                          IN IF ~notification_sent.val
                           /\ call.trace[Len(call.trace)].step # "notify"
                        THEN ran
                        ELSE IF call.i < Len(call.failures)
                             THEN [ran EXCEPT !.i = @ + 1,
                                              !.investigation = Unbound,
                                              !.fixed_sql = Unbound,
                                              !.savings_call = Unbound,
                                              !.pc = "investigate"]
                             ELSE [ran EXCEPT !.pc = "return"]
    /\ UNCHANGED <<sf_conn, credit_price>>

\* Phase 4: notifier.send_fix_proposal_email with the incident details, which
\* returns whether the mail was delivered; mails keeps the details of every
\* call and where its SMTP exchange failed; then the next row of the loop
Notify ==
    /\ Running("notify")
    /\ \E failure \in SmtpFailures :
          LET row == call.failures[call.i]
              incident_details ==
                 [task_name |-> row.TASK_NAME,
                  error_message |-> row.ERROR_MESSAGE,
                  original_sql |-> call.investigation.query_text,
                  fixed_sql |-> IF Truthy(call.fixed_sql) THEN call.fixed_sql
                                ELSE "No automated fix available",
                  savings |-> call.results[Len(call.results)].savings]
              notification_sent == send_fix_proposal_email(failure)
              tried == [call EXCEPT
                          !.trace = Append(@, Step("notify", row.TASK_NAME)),
                          !.mails = Append(@, incident_details @@
                                                 [failure |-> failure])]
          IN call' = IF notification_sent.exc # "none"
                     THEN Aborted(tried, notification_sent.exc)
                     ELSE LET ran == [tried EXCEPT
                                        !.sent = IF notification_sent.val
                                                 THEN Append(@, row.TASK_NAME)
                                                 ELSE @]
                          IN IF call.i < Len(call.failures)
                             THEN [ran EXCEPT !.i = @ + 1,
                                              !.investigation = Unbound,
                                              !.fixed_sql = Unbound,
                                              !.savings_call = Unbound,
                                              !.pc = "investigate"]
                             ELSE [ran EXCEPT !.pc = "return"]
    /\ UNCHANGED <<sf_conn, credit_price>>

\* _print_summary(results) and return results
ReturnResults ==
    /\ Running("return")
    /\ call' = Returned(call, call.results)
    /\ UNCHANGED <<sf_conn, credit_price>>

CrewNext ==
    \/ CallCrewExtractFixedSql
    \/ Detect
    \/ Investigate
    \/ Savings
    \/ Notify
    \/ ReturnResults

CrewSpec == CrewInit /\ [][CrewNext]_vars

----------------------------------------------------------------------------
(* app.py: the dashboard.  Every click runs main() once; the session state *)
(* outlives the run, the messages and the statements of a run do not.      *)

\* an entry of st.session_state that holds v (Nothing when it is None)
Some(v) == <<v>>

\* demo_data.DEMO_RESULTS, the texts of the analysis cut to their first line
DEMO_RESULTS ==
    <<[task_name |-> "TASK_BROKEN_DIVISION",
       error_message |-> "Division by zero",
       investigation |->
          [query_text |-> "SELECT \n    order_id,\n    revenue / orders AS avg_per_order\nFROM sales",
           error_message |-> "Division by zero",
           diagnosis |-> "STEP 1 - ANALYZE ERROR",
           reasoning_steps |->
              [step1_analyze_error |-> "STEP 1 - ANALYZE ERROR",
               step2_context_check |-> "STEP 2 - CONTEXT CHECK",
               step3_root_cause |-> "STEP 3 - ROOT CAUSE IDENTIFICATION",
               step4_propose_fix |-> "STEP 4 - PROPOSE FIX",
               step5_validation |-> "STEP 5 - VALIDATION"],
           fixed_sql |-> "SELECT \n    order_id,\n    CASE \n        WHEN orders = 0 THEN 0\n        ELSE revenue / orders\n    END AS avg_per_order\nFROM sales;",
           execution_time_ms |-> 152],
       savings |->
          [task_name |-> "TASK_BROKEN_DIVISION",
           warehouse_size |-> "X-Small",
           avg_execution_time_seconds |-> <<3, 20>>,
           estimated_improvement_pct |-> 5,
           time_saved_per_run_seconds |-> <<1, 100>>,
           credits_saved_per_run |-> <<1, 500000>>,
           executions_per_year |-> 105120,
           annual_credits_saved |-> <<21, 100>>,
           annual_cost_saved_usd |-> <<63, 100>>]],
      [task_name |-> "TASK_MISSING_COLUMN",
       error_message |-> "SQL compilation error: error line 3 at position 8 invalid identifier 'NONEXISTENT_COLUMN'",
       investigation |->
          [query_text |-> "SELECT \n    order_id,\n    nonexistent_column\nFROM sales",
           error_message |-> "SQL compilation error: invalid identifier NONEXISTENT_COLUMN",
           diagnosis |-> "STEP 1 - ANALYZE ERROR",
           reasoning_steps |->
              [step1_analyze_error |-> "STEP 1 - ANALYZE ERROR",
               step2_context_check |-> "STEP 2 - CONTEXT CHECK",
               step3_root_cause |-> "STEP 3 - ROOT CAUSE IDENTIFICATION",
               step4_propose_fix |-> "STEP 4 - PROPOSE FIX",
               step5_validation |-> "STEP 5 - VALIDATION"],
           fixed_sql |-> "SELECT \n    order_id,\n    revenue\nFROM sales;",
           execution_time_ms |-> 0],
       savings |->
          [task_name |-> "TASK_MISSING_COLUMN",
           warehouse_size |-> "X-Small",
           avg_execution_time_seconds |-> <<0, 1>>,
           estimated_improvement_pct |-> 100,
           time_saved_per_run_seconds |-> <<0, 1>>,
           credits_saved_per_run |-> <<0, 1>>,
           executions_per_year |-> 105120,
           annual_credits_saved |-> <<0, 1>>,
           annual_cost_saved_usd |-> <<0, 1>>]],
      [task_name |-> "TASK_MISSING_TABLE",
       error_message |-> "SQL compilation error: Object 'FAKE_TABLE_THAT_DOES_NOT_EXIST' does not exist or not authorized",
       investigation |->
          [query_text |-> "SELECT * FROM fake_table_that_does_not_exist",
           error_message |-> "Object 'FAKE_TABLE_THAT_DOES_NOT_EXIST' does not exist",
           diagnosis |-> "STEP 1 - ANALYZE ERROR",
           reasoning_steps |->
              [step1_analyze_error |-> "STEP 1 - ANALYZE ERROR",
               step2_context_check |-> "STEP 2 - CONTEXT CHECK",
               step3_root_cause |-> "STEP 3 - ROOT CAUSE IDENTIFICATION",
               step4_propose_fix |-> "STEP 4 - PROPOSE FIX",
               step5_validation |-> "STEP 5 - VALIDATION"],
           fixed_sql |-> "SELECT * FROM sales;",
           execution_time_ms |-> 0],
       savings |->
          [task_name |-> "TASK_MISSING_TABLE",
           warehouse_size |-> "X-Small",
           avg_execution_time_seconds |-> <<0, 1>>,
           estimated_improvement_pct |-> 100,
           time_saved_per_run_seconds |-> <<0, 1>>,
           credits_saved_per_run |-> <<0, 1>>,
           executions_per_year |-> 105120,
           annual_credits_saved |-> <<0, 1>>,
           annual_cost_saved_usd |-> <<0, 1>>]]>>

\* app.extract_fixed_sql: the fixed_sql of the investigation when it is
\* truthy, else the first sql fence of the diagnosis, else None
app_extract_fixed_sql(investigation) ==
    IF "fixed_sql" \in DOMAIN investigation /\ Truthy(investigation.fixed_sql)
    THEN investigation.fixed_sql
    ELSE LET diagnosis_text == IF "diagnosis" \in DOMAIN investigation
                               THEN investigation.diagnosis ELSE ""
         IN IF ~Truthy(diagnosis_text) THEN None
            ELSE IF Contains(diagnosis_text, SqlFence)
                 THEN Strip(Split(Split(diagnosis_text, SqlFence)[2], CodeFence)[1])
                 ELSE None

\* init_session_state, and main() up to its first return: results is None
app_frame(demo_mode) ==
    [fn |-> "app.main", status |-> "rendered", DEMO_MODE |-> demo_mode,
     session_state |-> [results |-> Nothing, selected_task |-> Nothing],
     shown |-> <<>>, executed |-> <<>>]

\* DEMO_MODE is True in the source and is set to False for the live APIs
DashInit ==
    /\ sf_conn = None
    /\ credit_price = <<3, 1>>
    /\ call \in {app_frame(demo_mode) : demo_mode \in BOOLEAN}

\* main() has rendered the page and waits for a click
Rendered == call.fn = "app.main" /\ call.status = "rendered"

\* the incident feed is rendered: results is a list that is not empty
FeedRendered ==
    /\ Rendered
    /\ call.session_state.results # Nothing
    /\ Len(call.session_state.results[1]) # 0

\* the forensic analysis is rendered: selected = results[selected_task] was
\* looked up
AnalysisRendered ==
    /\ FeedRendered
    /\ call.session_state.selected_task # Nothing
    /\ call.session_state.selected_task[1] \in
          0..(Len(call.session_state.results[1]) - 1)

\* selected = results[st.session_state.selected_task]
selected == call.session_state.results[1][call.session_state.selected_task[1] + 1]

\* variant of ScanForFailures: the selection is kept over the scan
ScanForFailures_keeps_selection ==
    /\ Rendered
    /\ call' = IF call.DEMO_MODE
               THEN [call EXCEPT !.session_state.results = Some(DEMO_RESULTS),
                                 !.shown = <<>>, !.executed = <<>>]
               ELSE run_investigation_frame @@
                    [DEMO_MODE |-> FALSE,
                     session_state |-> [results |-> Nothing,
                                        selected_task |->
                                           call.session_state.selected_task]]
    /\ UNCHANGED <<sf_conn, credit_price>>

\* the button Scan for Failures: results and selected_task are set to None,
\* then run_detection stores DEMO_RESULTS or calls crew.run_investigation()
ScanForFailures ==
    /\ Rendered
    /\ call' = IF call.DEMO_MODE
               THEN [call EXCEPT !.session_state =
                                     [results |-> Some(DEMO_RESULTS),
                                      selected_task |-> Nothing],
                                 !.shown = <<>>, !.executed = <<>>]
               ELSE run_investigation_frame @@
                    [DEMO_MODE |-> FALSE,
                     session_state |-> [results |-> Nothing,
                                        selected_task |-> Nothing]]
    /\ UNCHANGED <<sf_conn, credit_price>>

\* the end of run_detection in live mode: the results of run_investigation
\* are stored and st.rerun() renders them; an exception of the run ends the
\* script and leaves results None
StoreResults ==
    /\ call.fn = "run_investigation"
    /\ call.status \in {"returned", "raised"}
    /\ "session_state" \in DOMAIN call
    /\ call' = [fn |-> "app.main", status |-> "rendered",
                DEMO_MODE |-> call.DEMO_MODE,
                session_state |->
                   IF call.status = "returned"
                   THEN [call.session_state EXCEPT !.results = Some(call.ret.val)]
                   ELSE call.session_state,
                shown |-> IF call.status = "raised" THEN <<call.ret.exc>>
                          ELSE <<>>,
                executed |-> call.executed]
    /\ UNCHANGED <<sf_conn, credit_price>>

\* a button Investigate of the feed, one for every idx of enumerate(results)
InvestigateButton ==
    /\ FeedRendered
    /\ \E idx \in 0..(Len(call.session_state.results[1]) - 1) :
          call' = [call EXCEPT !.session_state.selected_task = Some(idx),
                               !.shown = <<>>, !.executed = <<>>]
    /\ UNCHANGED <<sf_conn, credit_price>>

\* variant of ApproveAndDeployFix: the fix is run on the warehouse, and the
\* button is there without a fix too
ApproveAndDeployFix_executes ==
    /\ AnalysisRendered
    /\ call' = [call EXCEPT
                   !.shown = <<"Fix approved for " \o selected.task_name>>,
                   !.executed = <<app_extract_fixed_sql(selected.investigation)>>]
    /\ UNCHANGED <<sf_conn, credit_price>>

\* the button Approve & Deploy Fix, there when fixed_sql is truthy: it shows
\* two messages and balloons
ApproveAndDeployFix ==
    /\ AnalysisRendered
    /\ Truthy(app_extract_fixed_sql(selected.investigation))
    /\ call' = [call EXCEPT
                   !.shown = <<"Fix approved for " \o selected.task_name,
                               IF call.DEMO_MODE
                               THEN "Demo Mode: In production, this would execute the fixed SQL in Snowflake and update the task definition."
                               ELSE "In production, this would execute the fixed SQL in Snowflake">>,
                   !.executed = <<>>]
    /\ UNCHANGED <<sf_conn, credit_price>>

\* the button Reject Fix: it shows a warning
RejectFix ==
    /\ AnalysisRendered
    /\ call' = [call EXCEPT
                   !.shown = <<"Fix rejected. Task will continue to fail until manually resolved.">>,
                   !.executed = <<>>]
    /\ UNCHANGED <<sf_conn, credit_price>>

\* the button Back to Incident Feed
BackToIncidentFeed ==
    /\ AnalysisRendered
    /\ call' = [call EXCEPT !.session_state.selected_task = Nothing,
                            !.shown = <<>>, !.executed = <<>>]
    /\ UNCHANGED <<sf_conn, credit_price>>

DashNext ==
    \/ ScanForFailures
    \/ Detect
    \/ Investigate
    \/ Savings
    \/ Notify
    \/ ReturnResults
    \/ StoreResults
    \/ InvestigateButton
    \/ ApproveAndDeployFix
    \/ RejectFix
    \/ BackToIncidentFeed

DashSpec == DashInit /\ [][DashNext]_vars

----------------------------------------------------------------------------
(* Properties of the schedule converter *)

Done(fn) == call.status = "done" /\ call.fn = fn

\* the word w occurs in s, whatever the case of the letters
HasWord(s, w) == Contains(Lower(s), w)

HasUnit(s) == HasWord(s, "minute") \/ HasWord(s, "hour") \/ HasWord(s, "day")

RECURSIVE LeadingValue(_, _)
\* the value of the digits s starts with, after the value acc
LeadingValue(s, acc) ==
    IF Len(s) = 0 \/ ~IsDigit(CharAt(s, 1)) THEN acc
    ELSE LeadingValue(SubSeq(s, 2, Len(s)), 10 * acc + DigitValue(CharAt(s, 1)))

RECURSIVE FirstNumber(_)
\* the value of the first run of digits of s, -1 when s has no digit
FirstNumber(s) ==
    IF Len(s) = 0 THEN -1
    ELSE IF IsDigit(CharAt(s, 1)) THEN LeadingValue(s, 0)
    ELSE FirstNumber(SubSeq(s, 2, Len(s)))

\* the runs per year of the unit the claims say is selected
SelectedTotal(s) ==
    IF HasWord(s, "minute") THEN 525600
    ELSE IF HasWord(s, "hour") THEN 8760
    ELSE 365

\* C1: a schedule with a unit keyword and a first digit run of value n >= 1
\* is converted to floor(525600 / n) for MINUTE, floor(8760 / n) for HOUR and
\* floor(365 / n) for DAY; "5 MINUTE" gives 105120, "1 HOUR" 8760 and
\* "1 DAY" 365.
C1_AnnualRunsIsFloor ==
    Done("_parse_schedule_to_annual_runs") =>
        LET s == call.schedule
            n == FirstNumber(s)
        IN /\ (HasUnit(s) /\ n >= 1) => call.ret = Return(SelectedTotal(s) \div n)
           /\ s = "5 MINUTE" => call.ret = Return(105120)
           /\ s = "1 HOUR" => call.ret = Return(8760)
           /\ s = "1 DAY" => call.ret = Return(365)

C1_Witness ==
    /\ Done("_parse_schedule_to_annual_runs")
    /\ call.schedule = "Minute15"
    /\ call.ret = Return(35040)

\* C2: a schedule with a unit keyword and no digit at all makes the
\* converter fail with a MalformedScheduleError.
C2_NoDigitsIsMalformedSchedule ==
    (/\ Done("_parse_schedule_to_annual_runs")
     /\ HasUnit(call.schedule)
     /\ FirstNumber(call.schedule) = -1)
    => call.ret = Raise("MalformedScheduleError")

\* C3: a schedule with a unit keyword whose first digit run has the value
\* zero makes the converter fail with a MalformedScheduleError, never with a
\* division-by-zero fault.
C3_ZeroMagnitudeIsMalformedSchedule ==
    (/\ Done("_parse_schedule_to_annual_runs")
     /\ HasUnit(call.schedule)
     /\ FirstNumber(call.schedule) = 0)
    => (/\ call.ret.exc = "MalformedScheduleError"
        /\ call.ret.exc # "ZeroDivisionError")

\* C4: a schedule with none of the words minute, hour, day is converted to
\* 365 without raising, with or without digits in it.
C4_NoUnitGives365 ==
    (Done("_parse_schedule_to_annual_runs") /\ ~HasUnit(call.schedule))
    => call.ret = Return(365)

C4_Witness ==
    /\ Done("_parse_schedule_to_annual_runs")
    /\ ~HasUnit(call.schedule)
    /\ FirstNumber(call.schedule) = 5
    /\ call.ret = Return(365)

\* C5: with several unit keywords the unit is chosen by the priority MINUTE,
\* HOUR, DAY, wherever the keywords stand: hour and minute together are
\* converted as minutes, day and hour without minute as hours.
C5_UnitPriority ==
    Done("_parse_schedule_to_annual_runs") =>
        LET s == call.schedule
            n == FirstNumber(s)
        IN n >= 1 =>
            /\ (HasWord(s, "hour") /\ HasWord(s, "minute"))
                  => call.ret = Return(525600 \div n)
            /\ (HasWord(s, "day") /\ HasWord(s, "hour") /\ ~HasWord(s, "minute"))
                  => call.ret = Return(8760 \div n)

C5_Witness ==
    /\ Done("_parse_schedule_to_annual_runs")
    /\ call.schedule = "5hourMINUTE"
    /\ call.ret = Return(105120)

\* C6: the magnitude the converter divides by is the leftmost maximal run of
\* digits of the schedule, wherever it stands relative to the unit keyword.
C6_MagnitudeIsLeftmostRun ==
    (/\ Done("_parse_schedule_to_annual_runs")
     /\ HasUnit(call.schedule)
     /\ call.ret.exc = "none")
    => LET n == FirstNumber(call.schedule)
       IN /\ n >= 1
          /\ n * call.ret.val <= SelectedTotal(call.schedule)
          /\ SelectedTotal(call.schedule) < n * (call.ret.val + 1)

C6_Witness ==
    /\ Done("_parse_schedule_to_annual_runs")
    /\ call.schedule = "1MINUTE5"
    /\ call.ret = Return(525600)

----------------------------------------------------------------------------
(* Properties of the cost table and of the improvement estimator *)

\* C7: the lookup returns X-Small=1, Small=2, Medium=4, Large=8, X-Large=16,
\* 2X-Large=32, 3X-Large=64, 4X-Large=128 for an exactly matching label and 1
\* for every other label, None and "medium" included.
C7_WarehouseCredits ==
    Done("get_warehouse_credits_per_hour") =>
        LET w == call.warehouse_size
        IN call.ret = Return(CASE w = "X-Small" -> 1
                               [] w = "Small" -> 2
                               [] w = "Medium" -> 4
                               [] w = "Large" -> 8
                               [] w = "X-Large" -> 16
                               [] w = "2X-Large" -> 32
                               [] w = "3X-Large" -> 64
                               [] w = "4X-Large" -> 128
                               [] OTHER -> 1)

C7_Witness ==
    /\ Done("get_warehouse_credits_per_hour")
    /\ call.warehouse_size = "medium"
    /\ call.ret = Return(1)

\* C8: the estimator returns the percentage of the first keyword, in table
\* order, that occurs in the lower-cased fixed SQL, wherever the keywords
\* stand in the text ("partition" and "index" together give 30), and 10 when
\* none occurs.
C8_FirstKeywordInTableOrder ==
    Done("estimate_runtime_improvement") =>
        LET f == call.fixed_sql
        IN call.ret = Return(IF HasWord(f, "division by zero") THEN 5
                             ELSE IF HasWord(f, "missing column") THEN 100
                             ELSE IF HasWord(f, "missing table") THEN 100
                             ELSE IF HasWord(f, "case statement") THEN 5
                             ELSE IF HasWord(f, "coalesce") THEN 5
                             ELSE IF HasWord(f, "index") THEN 30
                             ELSE IF HasWord(f, "partition") THEN 40
                             ELSE 10)

C8_Witness ==
    /\ Done("estimate_runtime_improvement")
    /\ call.fixed_sql = "PARTITIONindex"
    /\ call.ret = Return(30)

\* C9: the estimate, and with it every field of the savings report, does not
\* depend on original_sql: a call that differs only in original_sql returns
\* the same value.
C9_OriginalSqlIgnored ==
    /\ Done("estimate_runtime_improvement") =>
          \A o \in SqlPieces :
             Return(estimate_runtime_improvement(o, call.fixed_sql)) = call.ret
    /\ (Done("calculate_savings") /\ call.stats # QueryFailed) =>
          \A o \in SavingsSqlPieces :
             calculate_savings(call.task_name, call.stats, o, call.fixed_sql,
                            call.task_schedule, credit_price) = call.ret

C9_Witness ==
    /\ Done("calculate_savings")
    /\ call.original_sql = "missing table"
    /\ call.fixed_sql = ""
    /\ call.ret.exc = "none"
    /\ call.ret.val.estimated_improvement_pct = 10

\* C10: in every report calculate_savings returns, estimated_improvement_pct
\* is one of 5, 10, 30, 40, 100 and executions_per_year is an integer.
C10_ReportDomains ==
    (Done("calculate_savings") /\ call.ret.exc = "none") =>
        /\ call.ret.val.estimated_improvement_pct \in {5, 10, 30, 40, 100}
        /\ call.ret.val.executions_per_year \in Int

C10_Witness ==
    /\ Done("calculate_savings")
    /\ call.ret.exc = "none"
    /\ call.fixed_sql = "missing table"
    /\ call.ret.val.estimated_improvement_pct = 100
    /\ call.ret.val.executions_per_year = 105120

----------------------------------------------------------------------------
(* Properties of the savings calculator *)

\* a call of calculate_savings that returned a report
Reported == Done("calculate_savings") /\ call.ret.exc = "none"

\* the demo scenario: 152 ms on X-Small, every 5 minutes, a fix of a
\* division by zero, 3.0 per credit
DemoScenario ==
    /\ Reported
    /\ call.stats # NoRow
    /\ call.stats.avg_execution_time_ms = 152
    /\ call.stats.warehouse_size = "X-Small"
    /\ call.task_schedule = "5 MINUTE"
    /\ HasWord(call.fixed_sql, "division by zero")
    /\ credit_price = <<3, 1>>

AvgMs == IF call.stats = NoRow THEN 10000 ELSE call.stats.avg_execution_time_ms

ValidSchedule(s) == HasUnit(s) => FirstNumber(s) >= 1

\* C14: with an average run time of 0 ms and a valid schedule the report is
\* returned with avg_execution_time_seconds, time_saved_per_run_seconds,
\* credits_saved_per_run, annual_credits_saved and annual_cost_saved_usd all
\* 0, for every warehouse size and improvement.
C14_ZeroRuntime ==
    (/\ Done("calculate_savings")
     /\ call.stats # QueryFailed
     /\ call.stats # NoRow
     /\ call.stats.avg_execution_time_ms = 0
     /\ ValidSchedule(call.task_schedule))
    => /\ call.ret.exc = "none"
       /\ call.ret.val.avg_execution_time_seconds = <<0, 1>>
       /\ call.ret.val.time_saved_per_run_seconds = <<0, 1>>
       /\ call.ret.val.credits_saved_per_run = <<0, 1>>
       /\ call.ret.val.annual_credits_saved = <<0, 1>>
       /\ call.ret.val.annual_cost_saved_usd = <<0, 1>>

C14_Witness ==
    /\ Reported
    /\ call.stats # NoRow
    /\ call.stats.avg_execution_time_ms = 0
    /\ call.stats.warehouse_size = "2X-Large"
    /\ call.ret.val.estimated_improvement_pct = 100
    /\ call.ret.val.annual_cost_saved_usd = <<0, 1>>

\* C15: when get_task_execution_stats returns None, calculate_savings (on a
\* valid schedule) returns a report computed from the placeholder 10000 ms,
\* "X-Small", 1 execution: avg_execution_time_seconds = 10 and
\* credits_per_hour = 1.
C15_MissingHistoryPlaceholder ==
    (/\ Done("calculate_savings")
     /\ call.stats = NoRow
     /\ ValidSchedule(call.task_schedule))
    => /\ call.ret.exc = "none"
       /\ call.ret.val.avg_execution_time_seconds = <<10, 1>>
       /\ call.ret.val.warehouse_size = "X-Small"
       /\ call.locals.avg_time_seconds = <<10, 1>>
       /\ call.locals.credits_per_hour = 1

C15_Witness ==
    /\ Reported
    /\ call.stats = NoRow
    /\ call.ret.val.avg_execution_time_seconds = <<10, 1>>

----------------------------------------------------------------------------
(* Properties of the response parsing *)

StepKeys ==
    {"step1_analyze_error", "step2_context_check", "step3_root_cause",
     "step4_propose_fix", "step5_validation"}

\* C19: _parse_reasoning_steps returns, for every response text, a mapping
\* with exactly the five step keys; the value of a key whose marker does not
\* occur in the text is the empty string; the function never raises.
C19_FiveKeysAlways ==
    Done("_parse_reasoning_steps") =>
        /\ call.ret.exc = "none"
        /\ DOMAIN call.ret.val = StepKeys
        /\ \A i \in 1..5 :
              ~Contains(call.response_text, step_markers[i][1])
                 => call.ret.val[step_markers[i][2]] = ""

C19_Witness ==
    /\ Done("_parse_reasoning_steps")
    /\ Contains(call.response_text, "STEP 4")
    /\ ~Contains(call.response_text, "STEP 3")
    /\ call.ret.val["step4_propose_fix"] # ""
    /\ call.ret.val["step3_root_cause"] = ""

\* the text after the first ```sql fence
AfterFence(text) == Slice(text, Find(text, SqlFence) + Len(SqlFence), Len(text))

\* the text between the first ```sql fence and the next ```, or the end
FencedText(text) ==
    LET after == AfterFence(text)
    IN IF Contains(after, CodeFence) THEN Slice(after, 0, Find(after, CodeFence))
       ELSE after

\* the text has a STEP 4 section with a SELECT in it
Step4WithSelect(text) ==
    /\ Contains(text, "STEP 4")
    /\ HasWord(Slice(text, Find(text, "STEP 4") + 6, Len(text)), "select")

\* C20: with a ```sql fence in the response _extract_fixed_sql returns the
\* trimmed text between the first ```sql and the next ``` (or the end), and
\* the result contains no ```; with neither a fence nor a STEP 4 section with
\* a SELECT it returns None.
C20_FencedSqlExtracted ==
    Done("_extract_fixed_sql") =>
        /\ Contains(call.response_text, SqlFence) =>
              /\ call.ret = Return(Strip(FencedText(call.response_text)))
              /\ ~Contains(call.ret.val, CodeFence)
        /\ (~Contains(call.response_text, SqlFence)
            /\ ~Step4WithSelect(call.response_text))
              => call.ret = Return(None)

----------------------------------------------------------------------------
(* Properties of the failure detection *)

\* the task names among the rows
TaskNamesOf(rows) == {rows[i].TASK_NAME : i \in 1..Len(rows)}

\* the most recent failed execution of task t: the row of t with the
\* greatest scheduled_time
LatestFailure(rows, t) ==
    LET Minute(row) == CHOOSE n \in 0..9 : ScheduledTime(n) = row.SCHEDULED_TIME
    IN rows[CHOOSE i \in 1..Len(rows) :
               /\ rows[i].TASK_NAME = t
               /\ \A j \in 1..Len(rows) :
                     rows[j].TASK_NAME = t => Minute(rows[j]) <= Minute(rows[i])]

\* C17: get_latest_failure_per_task returns exactly one row per distinct
\* task name among the detected failures, every field of the row is the
\* field of the task's most recent failed execution, and with no failures the
\* result is the empty frame.
C17_LatestFailurePerTask ==
    Done("get_latest_failure_per_task") =>
        LET rows == call.all_failures
            latest == call.ret.val
        IN /\ TaskNamesOf(latest) = TaskNamesOf(rows)
           /\ Len(latest) = Cardinality(TaskNamesOf(rows))
           /\ \A i \in 1..Len(latest) :
                 latest[i] = LatestFailure(rows, latest[i].TASK_NAME)
           /\ (Len(rows) = 0 => Len(latest) = 0)

----------------------------------------------------------------------------
(* Properties of the pipeline *)

\* the steps of a run over the detected tasks: detection, then for each task
\* in detection order investigation, savings, notification
PipelineSteps(failures) ==
    [k \in 1..(1 + 3 * Len(failures)) |->
        IF k = 1 THEN Step("detect", None)
        ELSE Step(<<"investigate", "savings", "notify">>[((k - 2) % 3) + 1],
                  failures[((k - 2) \div 3) + 1].TASK_NAME)]

IsPrefix(a, b) == Len(a) <= Len(b) /\ a = SubSeq(b, 1, Len(a))

Ended == call.fn = "run_investigation" /\ call.status # "running"

\* C18 as stated: detection runs once, then for each detected task, in
\* detection order, investigation, savings and notification run exactly once
\* each in that order; with no failures the run returns [] and does nothing
\* else.
C18_EveryTaskEveryStepOnce ==
    Ended =>
        /\ call.trace = PipelineSteps(call.failures)
        /\ (call.status = "returned" /\ Len(call.failures) = 0)
              => call.ret.val = <<>>

\* C18 amended: the steps performed are always an initial part of:
\* detection once, then for each detected task in detection order
\* investigation, savings, notification, once each (no task revisited, no
\* step retried); a step that raises ends the run, so the tasks from the
\* failing one on miss their remaining steps; a run that returns has
\* performed every step for every task and returns one result per task, and
\* with no failures it returns [] after the detection alone.
C18_PipelineOrder ==
    call.fn = "run_investigation" =>
        /\ IsPrefix(call.trace, PipelineSteps(call.failures))
        /\ call.status = "returned" =>
              /\ call.trace = PipelineSteps(call.failures)
              /\ call.ret.val = call.results
              /\ Len(call.results) = Len(call.failures)
              /\ \A k \in 1..Len(call.results) :
                    call.results[k].task_name = call.failures[k].TASK_NAME
        /\ (call.status = "returned" /\ Len(call.failures) = 0)
              => call.ret.val = <<>> /\ call.trace = <<Step("detect", None)>>
        /\ call.status = "raised" => Len(call.trace) >= 1

C18_Witness ==
    /\ call.fn = "run_investigation"
    /\ call.status = "returned"
    /\ Len(call.failures) = 2
    /\ Len(call.trace) = 7
    /\ Len(call.sent) = 1

\* the number of occurrences of k in s
Occurrences(s, k) ==
    Cardinality({i \in 0..(Len(s) - Len(k)) : SubSeq(s, i + 1, i + Len(k)) = k})

Marker(i) == step_markers[i][1]

\* the section returned for step i
Section(i) == call.ret.val[step_markers[i][2]]

\* the five markers occur once each, in increasing order
MarkersInOrder(text) ==
    /\ \A i \in 1..5 : Occurrences(text, Marker(i)) = 1
    /\ \A i \in 1..4 : Find(text, Marker(i)) < Find(text, Marker(i + 1))

InRun == call.fn = "run_investigation"

\* the steps performed so far for task t
StepsOf(t) == {call.trace[k].step : k \in {j \in 1..Len(call.trace) : call.trace[j].task = t}}

\* C23: when investigate returns its error result for a task, the run ends
\* with an exception at that task: no savings and no notification for that
\* task or a later one, nothing is returned (the results of the earlier tasks
\* are lost), the mails sent for the earlier tasks stay sent, and nothing
\* happens afterwards.
C23_ErrorResultAbortsRun ==
    /\ []((InRun /\ call.investigation = InvestigationError) =>
            /\ call.status = "raised"
            /\ call.ret = Raise("KeyError")
            /\ \A k \in 1..Len(call.failures) :
                  LET t == call.failures[k].TASK_NAME
                  IN /\ k < call.i =>
                          StepsOf(t) = {"investigate", "savings", "notify"}
                     /\ k = call.i => StepsOf(t) = {"investigate"}
                     /\ k > call.i => StepsOf(t) = {}
            /\ Len(call.results) = call.i - 1
            /\ Len(call.mails) = call.i - 1
            /\ \A k \in 1..Len(call.sent) :
                  \E j \in 1..(call.i - 1) :
                     call.sent[k] = call.failures[j].TASK_NAME)
    /\ [][(InRun /\ call.investigation = InvestigationError)
             => UNCHANGED vars]_vars

C23_Witness ==
    /\ InRun
    /\ call.investigation = InvestigationError
    /\ call.i = 2
    /\ Len(call.results) = 1
    /\ call.sent = <<call.failures[1].TASK_NAME>>
    /\ call.status = "raised"

\* C24: send_fix_proposal_email returns False when its SMTP exchange raises
\* and True only when send_message completed; a failed notification leaves
\* the run going: the result of the task is in results and stays there, and
\* the run goes on with the next task, or returns the results after the last.
C24_FailedNotificationGoesOn ==
    /\ [](InRun =>
            \A k \in 1..Len(call.mails) :
               LET delivered == \E j \in 1..Len(call.sent) :
                                   call.sent[j] = call.mails[k].task_name
               IN delivered <=> call.mails[k].failure = "none")
    /\ [][(Running("notify")) =>
             /\ call'.status = "running"
             /\ call'.results = call.results
             /\ call.results[call.i].task_name = call.failures[call.i].TASK_NAME
             /\ IF call.i < Len(call.failures)
                THEN call'.pc = "investigate" /\ call'.i = call.i + 1
                ELSE call'.pc = "return"]_vars
    /\ []((InRun /\ call.status = "returned") =>
             Len(call.ret.val) = Len(call.mails))

C24_Witness ==
    /\ InRun
    /\ call.status = "returned"
    /\ Len(call.mails) = 2
    /\ call.mails[1].failure = "send_message"
    /\ call.sent = <<call.failures[2].TASK_NAME>>
    /\ Len(call.ret.val) = 2

FixMarker == "FIXED SQL:"
ExplanationMarker == "EXPLANATION:"

\* no fix can be extracted: the text is empty or None or lacks the marker
NoFixMarker(text) == ~Truthy(text) \/ ~Contains(text, FixMarker)

AfterFixMarker(text) ==
    Slice(text, Find(text, FixMarker) + Len(FixMarker), Len(text))

\* the text s up to the first occurrence of k, all of s when there is none
UpTo(s, k) == IF Contains(s, k) THEN Slice(s, 0, Find(s, k)) ELSE s

\* what the claim says about the savings call and the mail of a task
NoFixIsOriginalSql ==
    /\ (InRun /\ call.savings_call # Unbound
              /\ NoFixMarker(call.investigation.diagnosis)) =>
          /\ call.savings_call.fixed_sql = call.investigation.query_text
          /\ call.savings_call.original_sql = call.investigation.query_text
          /\ call.pc = "notify" =>
                call.results[call.i].savings.estimated_improvement_pct =
                   estimate_runtime_improvement(call.investigation.query_text,
                                                call.investigation.query_text)
    /\ InRun =>
          \A k \in 1..Len(call.mails) :
             NoFixMarker(call.results[k].investigation.diagnosis)
                => call.mails[k].fixed_sql = "No automated fix available"

\* C25 as stated: without a marker "FIXED SQL:" in the diagnosis (or with an
\* empty or missing diagnosis) calculate_savings gets the original query text
\* as fixed_sql and the mail says 'No automated fix available'; with the
\* marker the fix is the trimmed text after the first "FIXED SQL:" up to the
\* following "EXPLANATION:", if any.
C25_FixAfterMarkerAsStated ==
    /\ NoFixIsOriginalSql
    /\ Done("SnowflakeSentinelCrew._extract_fixed_sql") =>
          call.ret.val =
             IF NoFixMarker(call.diagnosis_text) THEN None
             ELSE Strip(UpTo(AfterFixMarker(call.diagnosis_text),
                             ExplanationMarker))

\* C25 amended: as stated, but the fix ends at the following "EXPLANATION:"
\* or at the next "FIXED SQL:", whichever comes first.
C25_FixAfterMarker ==
    /\ NoFixIsOriginalSql
    /\ Done("SnowflakeSentinelCrew._extract_fixed_sql") =>
          call.ret.val =
             IF NoFixMarker(call.diagnosis_text) THEN None
             ELSE Strip(UpTo(UpTo(AfterFixMarker(call.diagnosis_text), FixMarker),
                             ExplanationMarker))

C25_Witness ==
    /\ InRun
    /\ call.status = "returned"
    /\ Len(call.mails) = 2
    /\ call.results[1].investigation.diagnosis = "STEP 1 the divisor is 0"
    /\ call.mails[1].fixed_sql = "No automated fix available"
    /\ call.results[1].savings.estimated_improvement_pct = 10
    /\ call.mails[2].fixed_sql = "select 1 -- no division by zero"
    /\ call.results[2].savings.estimated_improvement_pct = 5

\* C26: every savings report of run_investigation is computed with the
\* schedule '5 MINUTE' and the credit price 3.0: executions_per_year is
\* 105120 in every entry of the results.
C26_FixedScheduleAndPrice ==
    InRun =>
        /\ credit_price = <<3, 1>>
        /\ \A k \in 1..Len(call.results) :
              call.results[k].savings.executions_per_year = 105120
        /\ (call.savings_call # Unbound /\ call.pc = "notify") =>
              /\ call.savings_call.task_schedule = "5 MINUTE"
              /\ call.results[call.i].savings =
                    calculate_savings(call.savings_call.task_name,
                        call.savings_call.stats, call.savings_call.original_sql,
                        call.savings_call.fixed_sql, "5 MINUTE", <<3, 1>>).val
        /\ call.status = "returned" =>
              \A k \in 1..Len(call.ret.val) :
                 call.ret.val[k].savings.executions_per_year = 105120

C26_Witness ==
    /\ InRun
    /\ call.status = "returned"
    /\ Len(call.ret.val) = 2
    /\ call.ret.val[2].savings.executions_per_year = 105120
    /\ call.ret.val[2].savings.annual_cost_saved_usd = Rat(67, 100)

\* a <= b for rationals
RatLeq(a, b) == RatSub(b, a)[1] >= 0

Zero == <<0, 1>>

\* C27: for every average execution time >= 0, warehouse size, valid
\* schedule and credit price >= 0 the unrounded values satisfy
\* 0 <= time_saved <= avg_seconds, 0 <= credits_after <= credits_before and
\* credits_saved_per_run, annual_credits_saved, annual_cost_saved >= 0; with
\* an improvement of 100 percent credits_after = 0 and credits_saved_per_run
\* = credits_before.
C27_SavingsNonNegative ==
    Reported =>
        LET v == call.locals
        IN /\ RatLeq(Zero, v.time_saved_seconds)
           /\ RatLeq(v.time_saved_seconds, v.avg_time_seconds)
           /\ RatLeq(Zero, v.credits_per_run_after)
           /\ RatLeq(v.credits_per_run_after, v.credits_per_run_before)
           /\ RatLeq(Zero, v.credits_saved_per_run)
           /\ RatLeq(Zero, v.annual_credits_saved)
           /\ RatLeq(Zero, v.annual_cost_saved)
           /\ v.improvement_pct = 100 =>
                 /\ v.credits_per_run_after = Zero
                 /\ v.credits_saved_per_run = v.credits_per_run_before

C27_Witness ==
    /\ Reported
    /\ call.locals.improvement_pct = 100
    /\ call.locals.credits_per_run_before # Zero
    /\ call.locals.credits_per_run_after = Zero
    /\ credit_price = Zero
    /\ call.locals.annual_credits_saved # Zero
    /\ call.locals.annual_cost_saved = Zero

----------------------------------------------------------------------------
(* Claims about the dashboard *)

\* the two entries of st.session_state; every frame of DashSpec has them
Results == call.session_state.results
SelectedTask == call.session_state.selected_task

SelectionInRange ==
    SelectedTask # Nothing =>
        /\ Results # Nothing
        /\ Len(Results[1]) > 0
        /\ 0 <= SelectedTask[1]
        /\ SelectedTask[1] < Len(Results[1])

\* C28: after any sequence of Scan for Failures, Investigate(idx) and Back to
\* Incident Feed, whenever selected_task is not None the results are a list
\* that is not empty and 0 <= selected_task < len(results); Scan resets
\* results and selected_task to None before it stores new results,
\* Investigate changes only selected_task, Back sets only selected_task to
\* None.
C28_SelectedTaskInRange ==
    /\ [](SelectionInRange)
    /\ [](call.fn = "run_investigation" =>
             Results = Nothing /\ SelectedTask = Nothing)
    /\ [][ScanForFailures =>
             /\ call'.session_state.selected_task = Nothing
             /\ \/ call'.session_state.results = Nothing
                \/ call.DEMO_MODE
                   /\ call'.session_state.results = Some(DEMO_RESULTS)]_vars
    /\ [][StoreResults =>
             /\ call'.session_state.selected_task = Nothing
             /\ call.status = "returned" =>
                   call'.session_state.results = Some(call.ret.val)
             /\ call.status = "raised" =>
                   call'.session_state.results = Nothing]_vars
    /\ [][InvestigateButton =>
             /\ call'.session_state.results = Results
             /\ call'.session_state.selected_task # Nothing]_vars
    /\ [][BackToIncidentFeed =>
             /\ call'.session_state.results = Results
             /\ call'.session_state.selected_task = Nothing]_vars

\* the last task of a live scan with two failed tasks is selected
C28_Witness ==
    /\ Rendered
    /\ ~call.DEMO_MODE
    /\ Results # Nothing
    /\ Len(Results[1]) = 2
    /\ SelectedTask = Some(1)
    /\ selected.task_name = Results[1][2].task_name

\* the results the frame holds: those of the session, or those the run has
\* collected so far
KnownResults ==
    IF call.fn = "run_investigation" THEN call.results
    ELSE IF Results = Nothing THEN <<>> ELSE Results[1]

\* the investigations the frame holds
KnownInvestigations ==
    {KnownResults[k].investigation : k \in 1..Len(KnownResults)}
    \cup (IF call.fn = "run_investigation"
             /\ "diagnosis" \in DOMAIN call.investigation
          THEN {call.investigation} ELSE {})

\* the fixes extracted from them by the dashboard, the agent or the crew
ProposedFixes ==
    {f \in {app_extract_fixed_sql(inv) : inv \in KnownInvestigations}
           \cup {inv.fixed_sql : inv \in KnownInvestigations}
           \cup {crew_extract_fixed_sql(inv.diagnosis) : inv \in KnownInvestigations} :
        Truthy(f)}

\* the statement begins with a keyword that defines, changes or runs a task
ChangesTask(statement) ==
    \E w \in {"ALTER", "CREATE", "DROP", "EXECUTE"} :
        /\ Len(statement) >= Len(w)
        /\ Upper(SubSeq(statement, 1, Len(w))) = w

\* the statements the run has sent to the warehouse
Executed == {call.executed[k] : k \in 1..Len(call.executed)}

ApprovalShown ==
    /\ Rendered
    /\ call.shown # <<>>
    /\ Contains(call.shown[1], "Fix approved for ")

----------------------------------------------------------------------------
(* Claims about ForensicAgent.investigate *)

Investigated == call.fn = "ForensicAgent.investigate" /\ call.status = "done"

\* get_query_text returned the row of the query
QueryTextFetched ==
    sf_conn # None /\ call.answer \notin {QueryFailed, NoRow}

\* the table is looked up and the lookup does not give its DDL
DdlLookupFails ==
    /\ names_table(call.answer.query_text)
    /\ call.ddl_answer \in {QueryFailed, NoRow}

\* the result when the language model is of no help
ResultWithoutDiagnosis ==
    [task_name |-> call.task_name,
     query_text |-> call.answer.query_text,
     error_message |-> call.error_message,
     diagnosis |-> None,
     reasoning_steps |-> <<>>,
     fixed_sql |-> None,
     execution_time_ms |-> call.answer.execution_time]

\* what the call does once the query text is fetched
DegradesAfterFetch ==
    QueryTextFetched =>
        /\ call.ret.exc = "none"
        /\ Len(call.claude_calls) = 1
        /\ DdlLookupFails => call.claude_calls[1].table_ddl = None
        /\ call.claude_answer = ApiError => call.ret.val = ResultWithoutDiagnosis
        /\ call.claude_answer # ApiError =>
              /\ call.ret.val.diagnosis = call.claude_answer.text
              /\ DOMAIN call.ret.val = DOMAIN ResultWithoutDiagnosis

\* C30 as it is stated: investigate never raises; when the query text cannot
\* be fetched it returns only the error without calling the language model;
\* when the DDL lookup fails table_ddl is None; when the call of the language
\* model raises the result is full, with diagnosis None, reasoning_steps {}
\* and fixed_sql None.
C30_DegradesAsStated ==
    Investigated =>
        /\ call.ret.exc = "none"
        /\ ~QueryTextFetched =>
              /\ call.ret.val = InvestigationError
              /\ call.claude_calls = <<>>
        /\ DegradesAfterFetch

\* C30, amended: the same when QUERY_HISTORY has no row for the query id; a
\* failure of the connection or of the query of get_query_text is raised to
\* the caller, the language model is not called then either.
C30_Degrades ==
    Investigated =>
        /\ (sf_conn # None /\ call.answer = NoRow) =>
              /\ call.ret = Return(InvestigationError)
              /\ call.claude_calls = <<>>
        /\ (sf_conn = None \/ call.answer = QueryFailed) =>
              /\ call.ret = Raise("snowflake.connector.Error")
              /\ call.claude_calls = <<>>
        /\ DegradesAfterFetch

\* the DDL lookup and the language model both fail
C30_Witness ==
    /\ Investigated
    /\ QueryTextFetched
    /\ DdlLookupFails
    /\ call.ddl_answer = QueryFailed
    /\ call.claude_answer = ApiError
    /\ call.ret = Return(ResultWithoutDiagnosis)
    /\ call.claude_calls[1].table_ddl = None

====
